---- MODULE Spec2Model ----
(***************************************************************************)
(* Model of the openfda download stage: stages/02_download.py (thread and  *)
(* process drivers) and stages/02_download_async.py (async driver).        *)
(*                                                                         *)
(* One run = main(): load the manifest, build download_list, dispatch      *)
(* download_single_file for every task under the driver's pool, collect    *)
(* the results, categorise them and exit.  Runs follow one another on the  *)
(* same filesystem with the same manifest and the same remote.             *)
(***************************************************************************)
EXTENDS Integers, Sequences, FiniteSets, TLC

VARIABLES
    driver,        \* "threads" | "processes" (DOWNLOAD_METHOD) | "async" (the async script)
    sameFs,        \* tempfile.gettempdir() is on the filesystem of the download directory
    cpus,          \* multiprocessing.cpu_count()
    manifest,      \* content of list/download.json
    remote,        \* URL -> what the server answers
    fs,            \* artifact path -> content of the file (Absent when there is none)
    markers,       \* artifact path -> content of <artifact>.last-modified (NoDate when none)
    tmp,           \* task -> content of the task's temporary file (Absent when none)
    run,           \* number of the current run
    mainpc,        \* position of main()
    download_list, \* the tasks main() built
    results,       \* the list main() collects
    collected,     \* tasks whose future / result main() has consumed
    exitCode,      \* exit status of the run (-1 while it runs)
    pc,            \* task -> position of its download_single_file call
    ret,           \* task -> what the call returned ("none" before, "Raised" for an exception)
    prev,          \* task -> previous_last_modified
    hdr,           \* task -> If-Modified-Since header sent (NoDate when not sent)
    resp,          \* task -> the response being consumed
    pre,           \* task -> content of the artifact path when the task started
    cause,         \* task -> why the call ended as it did
    wrote,         \* task -> number of writes to the artifact or marker path in this run
    gets,          \* task -> number of GET requests the call has issued
    artlm,         \* artifact path -> Last-Modified of the response whose body was moved there
    probe          \* inputs and result of a function applied on its own (idle in a run)

vars == << driver, sameFs, cpus, manifest, remote, fs, markers, tmp, run, mainpc,
           download_list, results, collected, exitCode, pc, ret, prev, hdr, resp,
           pre, cause, wrote, gets, artlm, probe >>

----------------------------------------------------------------------------
(* Bounds of the model *)

MaxChunks == 2      \* longest response body, in chunks of 8192 bytes
MaxRuns == 2        \* successive runs of the downloader
MaxCpu == 2         \* largest cpu_count()
MaxThreads == 2     \* largest max_threads of the unzip stage
MaxTs == 3          \* latest instant a date text denotes (the earliest is -1, before the epoch)
MaxFields == 3      \* most data_type/field_name entries of a manifest whose task list is built on its own
MaxParts == 3       \* most partitions of such an entry

(* Program constants *)

ThreadCap == 20     \* min(20, num_files)
ProcessCap == 8     \* min(cpu_count(), 8, num_files)
AsyncCap == 10      \* min(10, num_files)

Min(a, b) == IF a <= b THEN a ELSE b

----------------------------------------------------------------------------
(* Date strings.  A text is described by the syntactic shape it has and the *)
(* instant it denotes; parse_date tries the formats in order.               *)

NoDate == [shape |-> "absent", ts |-> 0]

HttpDate(n) == [shape |-> "http", ts |-> n]
YmdDate(n) == [shape |-> "ymd", ts |-> n]

Formats == << "http", "ymd", "iso", "isoz" >>

\* datetime.strptime(text, fmt).timestamp(): succeeds only on the format's shape
Strptime(text, fmt) ==
    IF text.shape = fmt THEN [ok |-> TRUE, ts |-> text.ts] ELSE [ok |-> FALSE, ts |-> 0]

\* dateutil.parser.parse: accepts the four shapes and other free-form dates
DateutilParse(text) ==
    IF text.shape \in {"http", "ymd", "iso", "isoz", "flex"}
    THEN [ok |-> TRUE, ts |-> text.ts] ELSE [ok |-> FALSE, ts |-> 0]

RECURSIVE TryFormats(_, _)
\* a plausible slip: the flexible parser is consulted before the formats
TryFormatsFlexibleFirst(text, i) ==
    IF i > Len(Formats) \/ (i = 1 /\ DateutilParse(text).ok)
    THEN [ok |-> DateutilParse(text).ok, ts |-> DateutilParse(text).ts,
          tried |-> << "dateutil" >>]
    ELSE IF Strptime(text, Formats[i]).ok
    THEN [ok |-> TRUE, ts |-> Strptime(text, Formats[i]).ts, tried |-> << Formats[i] >>]
    ELSE [TryFormats(text, i + 1) EXCEPT !.tried = << Formats[i] >> \o @]

\* for fmt in formats: try strptime, on ValueError continue; then dateutil.
\* `tried` lists the parsers that were consulted, in order
TryFormats(text, i) ==
    IF i > Len(Formats)
    THEN [ok |-> DateutilParse(text).ok, ts |-> DateutilParse(text).ts,
          tried |-> << "dateutil" >>]
    ELSE IF Strptime(text, Formats[i]).ok
    THEN [ok |-> TRUE, ts |-> Strptime(text, Formats[i]).ts, tried |-> << Formats[i] >>]
    ELSE [TryFormats(text, i + 1) EXCEPT !.tried = << Formats[i] >> \o @]

parse_date(text) ==
    IF TryFormats(text, 1).ok THEN TryFormats(text, 1).ts ELSE 0

\* the exception that ends the attempts of parse_date ("none": a value is
\* returned).  date_string.strip() raises AttributeError on a value that is no
\* string; a text outside the formats ends in dateutil's ParserError, a
\* ValueError (ImportError where dateutil is not installed)
ParseException(text) ==
    IF text.shape = "nonstr" THEN "AttributeError"
    ELSE IF TryFormats(text, 1).ok THEN "none"
    ELSE "ValueError"

\* a plausible slip: the outer handler is `except ValueError:`
HandledValueErrorOnly == {"ValueError"}

\* except Exception: return 0
Handled == {"ValueError", "AttributeError", "ImportError"}

\* an exception leaves parse_date
parse_date_raises(text) == ParseException(text) \notin ({"none"} \cup Handled)

\* truthiness of a string read from / about to be written to the marker
Truthy(text) == text.shape \notin {"absent", "empty"}

----------------------------------------------------------------------------
(* URLs, paths and file contents *)

NoURL == [dir |-> "", file |-> ""]
U1 == [dir |-> "label", file |-> "p1.json.zip"]
U2 == [dir |-> "label", file |-> "p2.json.zip"]
URLs == {U1, U2}

\* a file: the body it was written from and how many chunks of it are there
Absent == [src |-> NoURL, n |-> -1]
File(u, k) == [src |-> u, n |-> k]

\* os.path.basename(file_url), os.path.basename(os.path.dirname(file_url)),
\* Path('.') / data_type / dir_name / filename
final_file(data_type, file_url) ==
    [type |-> data_type, dir |-> file_url.dir, file |-> file_url.file]

Paths == { final_file("drug", u) : u \in URLs }

----------------------------------------------------------------------------
(* The remote: what a GET of a URL produces *)

ExportDate == YmdDate(2)
LMOld == HttpDate(1)
LMNew == HttpDate(3)

RemoteKinds ==
    { [kind |-> "unreachable", chunks |-> 0, lm |-> NoDate],
      [kind |-> "timeout", chunks |-> 0, lm |-> NoDate],
      [kind |-> "http404", chunks |-> 0, lm |-> NoDate],
      [kind |-> "ok", chunks |-> 0, lm |-> LMNew],
      [kind |-> "ok", chunks |-> MaxChunks, lm |-> LMNew],
      [kind |-> "ok", chunks |-> MaxChunks, lm |-> LMOld],
      [kind |-> "ok", chunks |-> MaxChunks, lm |-> NoDate] }

\* a body is complete at a path when every chunk of the remote body is there
Complete(f) == f # Absent /\ f.src \in URLs /\ f.n = remote[f.src].chunks

----------------------------------------------------------------------------
(* Manifests: results -> data_type -> field_name -> {export_date, partitions} *)

Part(u) == [hasFile |-> TRUE, file |-> u]
PartNoFile == [hasFile |-> FALSE, file |-> NoURL]

Field(ty, nm, hasExp, parts) ==
    [type |-> ty, name |-> nm, hasExport |-> hasExp, export_date |-> ExportDate,
     hasPartitions |-> TRUE, partitions |-> parts]

Manifests ==
    { << Field("drug", "label", TRUE, << Part(U1), Part(U2) >>) >>,
      << Field("drug", "event", FALSE, << Part(U1) >>),
         Field("drug", "label", TRUE, << Part(U2) >>) >>,
      << Field("drug", "label", TRUE, << Part(U1), PartNoFile >>) >>,
      << Field("drug", "event", TRUE, << Part(U1) >>),
         [Field("drug", "label", TRUE, << >>) EXCEPT !.hasPartitions = FALSE] >>,
      << >> }

----------------------------------------------------------------------------
(* main(): building download_list *)

RECURSIVE FieldTasks(_, _, _)
\* a plausible slip: the loop stops one partition short
FieldTasksShort(fi, n, i) ==
    IF i >= n THEN << >>
    ELSE << [f |-> fi, p |-> i] >> \o FieldTasks(fi, n, i + 1)

\* for partition_index in range(len(partitions)): download_list.append(...)
\* (p is the position in the sequence of partitions: partition_index + 1)
FieldTasks(fi, n, i) ==
    IF i > n THEN << >>
    ELSE << [f |-> fi, p |-> i] >> \o FieldTasks(fi, n, i + 1)

RECURSIVE BuildList(_, _)
\* for data_type ... for field_name ...: the fields in manifest order
BuildList(m, fi) ==
    IF fi > Len(m) THEN << >>
    ELSE FieldTasks(fi, Len(m[fi].partitions), 1) \o BuildList(m, fi + 1)

\* a plausible slip: an entry without `partitions` counts as one without tasks
BuildRaisesNever(m) == FALSE

\* data['results'][data_type][field_name]['partitions'] raises KeyError
BuildRaises(m) == \E fi \in 1..Len(m) : ~m[fi].hasPartitions

UsedURLs(m) ==
    UNION { { m[fi].partitions[pi].file : pi \in DOMAIN m[fi].partitions } :
            fi \in DOMAIN m } \cap URLs

Tasks == 1..Len(download_list)

TaskField(t) == manifest[download_list[t].f]
TaskPart(t) == TaskField(t).partitions[download_list[t].p]
TaskURL(t) == TaskPart(t).file
TaskPath(t) == final_file(TaskField(t).type, TaskURL(t))

\* file_info['export_date'] or ...['file'] raises KeyError
BadEntry(t) == ~TaskField(t).hasExport \/ ~TaskPart(t).hasFile

----------------------------------------------------------------------------
(* The drivers' bounds on the fetches in flight *)

IsSync == driver \in {"threads", "processes"}

max_workers(num_files) == Min(ThreadCap, num_files)
num_workers(num_files) == Min(Min(cpus, ProcessCap), num_files)
max_concurrent(num_files) == Min(AsyncCap, num_files)

PoolSize ==
    CASE driver = "threads" -> max_workers(Len(download_list))
      [] driver = "processes" -> num_workers(Len(download_list))
      [] OTHER -> max_concurrent(Len(download_list))

InFlight == { t \in Tasks : pc[t] \in {"get", "stream", "move", "copy", "marker"} }

\* the event loop runs one coroutine at a time: shutil.move does not yield
LoopFree(t) == driver = "async" => \A s \in Tasks \ {t} : pc[s] # "copy"

----------------------------------------------------------------------------
\* no function is being applied on its own
NoProbe == [fn |-> "none"]

Init ==
    /\ driver \in {"threads", "processes", "async"}
    /\ sameFs \in BOOLEAN
    /\ cpus \in 1..MaxCpu
    /\ driver # "processes" => cpus = 1
    /\ manifest \in Manifests
    /\ remote \in [URLs -> RemoteKinds]
    /\ \A u \in URLs \ UsedURLs(manifest) : remote[u].kind = "unreachable"
    /\ fs = [p \in Paths |-> Absent]
    /\ markers = [p \in Paths |-> NoDate]
    /\ tmp = << >>
    /\ run = 1
    /\ mainpc = "start"
    /\ download_list = << >>
    /\ results = << >>
    /\ collected = {}
    /\ exitCode = -1
    /\ pc = << >>
    /\ ret = << >>
    /\ prev = << >>
    /\ hdr = << >>
    /\ resp = << >>
    /\ pre = << >>
    /\ cause = << >>
    /\ wrote = << >>
    /\ gets = << >>
    /\ artlm = [p \in Paths |-> NoDate]
    /\ probe = NoProbe

envVars == << driver, sameFs, cpus, manifest, remote, probe >>
mainVars == << run, mainpc, download_list, results, collected, exitCode >>

NoResp == [status |-> 0, lm |-> NoDate, chunks |-> 0]

\* the run is over
Exit(code) ==
    /\ mainpc' = "exited"
    /\ exitCode' = code

\* main() up to the dispatch of the tasks
MainLoad ==
    /\ mainpc = "start"
    /\ UNCHANGED << envVars, fs, artlm, markers, run, results, collected >>
    /\ IF BuildRaises(manifest)
       THEN /\ Exit(1)
            /\ UNCHANGED << download_list, pc, ret, prev, hdr, resp, pre, gets, cause, wrote, tmp >>
       ELSE LET dl == BuildList(manifest, 1)
                T == 1..Len(dl)
            IN /\ download_list' = dl
               /\ pc' = [t \in T |-> "pending"]
               /\ ret' = [t \in T |-> "none"]
               /\ prev' = [t \in T |-> NoDate]
               /\ hdr' = [t \in T |-> NoDate]
               /\ resp' = [t \in T |-> NoResp]
               /\ pre' = [t \in T |-> Absent]
               /\ cause' = [t \in T |-> "none"]
               /\ wrote' = [t \in T |-> 0]
               /\ gets' = [t \in T |-> 0]
               /\ tmp' = [t \in T |-> Absent]
               /\ IF Len(dl) = 0
                  THEN Exit(0)
                  ELSE /\ mainpc' = "running"
                       /\ UNCHANGED exitCode

----------------------------------------------------------------------------
(* download_single_file, one action per stretch between two I/O operations *)

\* the call ends: a result string, or an exception for "Raised"
Return(t, status, why) ==
    /\ pc' = [pc EXCEPT ![t] = "done"]
    /\ ret' = [ret EXCEPT ![t] = status]
    /\ cause' = [cause EXCEPT ![t] = why]

\* the same code path ends in a different handler in the two scripts:
\* an exception that is not a RequestException reaches the outer handler of the
\* sync script, which does not remove the temporary file; the async script
\* removes it in `except Exception`
TmpAfterError(t) == IF IsSync THEN tmp[t] ELSE Absent

\* requests.Timeout is a RequestException; asyncio.TimeoutError is no aiohttp.ClientError
TimeoutStatus == IF IsSync THEN "Failed" ELSE "Error"

\* the return statement after the commit.  Sync: the f-string evaluates
\* hasattr(response, 'content'); the body was consumed by iter_content, so the
\* property raises RuntimeError, hasattr lets it through and the outer handler
\* returns "Error processing ...".  Async: final_file.stat(), "Downloaded ...".
CommitStatus == IF IsSync THEN "Error" ELSE "Downloaded"

\* the server honours If-Modified-Since against its Last-Modified
NotModified(header, r) ==
    /\ header # NoDate
    /\ r.lm # NoDate
    /\ parse_date(header) >= parse_date(r.lm)

\* a plausible slip: the conditional header is never attached
IfModifiedSinceNever(previous_last_modified) == NoDate

\* headers = {}; if previous_last_modified: headers['If-Modified-Since'] = ...
IfModifiedSince(previous_last_modified) ==
    IF Truthy(previous_last_modified) THEN previous_last_modified ELSE NoDate

\* a plausible slip: the comparison is turned around
UpToDateReversed(both, previous_last_modified, export_date) ==
    both /\ parse_date(previous_last_modified) < parse_date(export_date)

\* if last_modified_file.exists() and final_file.exists(): ...
\*     if parse_date(previous_last_modified) > parse_date(export_date): return "Skipped ..."
UpToDate(both, previous_last_modified, export_date) ==
    both /\ parse_date(previous_last_modified) > parse_date(export_date)

\* from the start of the call to the creation of the temporary file
WStart(t) ==
    /\ mainpc \in {"running", "aborting"}
    /\ pc[t] = "pending"
    /\ \A s \in Tasks : s < t => pc[s] # "pending"
    /\ Cardinality(InFlight) < PoolSize
    /\ LoopFree(t)
    /\ UNCHANGED << envVars, mainVars, fs, artlm, markers, resp, wrote, gets >>
    /\ IF BadEntry(t)
       THEN \* KeyError; the handler formats {filename}, which is unbound
            /\ Return(t, "Raised", "badentry")
            /\ UNCHANGED << prev, hdr, pre, tmp >>
       ELSE LET path == TaskPath(t)
                both == markers[path] # NoDate /\ fs[path] # Absent
                \* f.read().strip(): a marker holds a header value, which has no blanks around it
                previous_last_modified == IF both THEN markers[path] ELSE NoDate
            IN /\ pre' = [pre EXCEPT ![t] = fs[path]]
               /\ prev' = [prev EXCEPT ![t] = previous_last_modified]
               /\ IF UpToDate(both, previous_last_modified, TaskField(t).export_date)
                  THEN /\ Return(t, "SkippedUpToDate", "uptodate")
                       /\ UNCHANGED << hdr, tmp >>
                  ELSE /\ hdr' = [hdr EXCEPT ![t] = IfModifiedSince(previous_last_modified)]
                       /\ tmp' = [tmp EXCEPT ![t] = File(TaskURL(t), 0)]
                       /\ pc' = [pc EXCEPT ![t] = "get"]
                       /\ UNCHANGED << ret, cause >>

\* a plausible slip: the 304 branch returns without removing the temporary file
Handle304KeepsTmp(t, r) ==
    /\ resp' = [resp EXCEPT ![t] = [status |-> 304, lm |-> r.lm, chunks |-> 0]]
    /\ UNCHANGED tmp
    /\ Return(t, "SkippedNotModified", "notmodified")

\* if response.status_code == 304: os.unlink(tmp_filename); return "Skipped ... (not modified)"
Handle304(t, r) ==
    /\ resp' = [resp EXCEPT ![t] = [status |-> 304, lm |-> r.lm, chunks |-> 0]]
    /\ tmp' = [tmp EXCEPT ![t] = Absent]
    /\ Return(t, "SkippedNotModified", "notmodified")

\* session.get(...), the 304 test and raise_for_status()
WGet(t) ==
    /\ pc[t] = "get"
    /\ LoopFree(t)
    /\ UNCHANGED << envVars, mainVars, fs, artlm, markers, prev, hdr, pre, wrote >>
    /\ gets' = [gets EXCEPT ![t] = @ + 1]
    /\ LET r == remote[TaskURL(t)]
       IN CASE r.kind = "unreachable" ->
                 /\ tmp' = [tmp EXCEPT ![t] = Absent]
                 /\ Return(t, "Failed", "connfail")
                 /\ UNCHANGED resp
            [] r.kind = "timeout" ->
                 \* the total timeout of the request expires
                 /\ tmp' = [tmp EXCEPT ![t] = Absent]
                 /\ Return(t, TimeoutStatus, "timeout")
                 /\ UNCHANGED resp
            [] r.kind = "http404" ->
                 /\ resp' = [resp EXCEPT ![t] = [status |-> 404, lm |-> NoDate, chunks |-> 0]]
                 /\ tmp' = [tmp EXCEPT ![t] = Absent]
                 /\ Return(t, "Failed", "httperror")
            [] OTHER ->
                 IF NotModified(hdr[t], r)
                 THEN Handle304(t, r)
                 ELSE /\ resp' = [resp EXCEPT ![t] =
                                    [status |-> 200, lm |-> r.lm, chunks |-> r.chunks]]
                      /\ pc' = [pc EXCEPT ![t] = IF r.chunks = 0 THEN "move" ELSE "stream"]
                      /\ UNCHANGED << tmp, ret, cause >>

\* a plausible slip: the body is streamed straight into the artifact path
WChunkInPlace(t) ==
    /\ pc[t] = "stream"
    /\ LoopFree(t)
    /\ UNCHANGED << envVars, mainVars, markers, artlm, prev, hdr, resp, pre, gets, wrote >>
    /\ \/ /\ tmp' = [tmp EXCEPT ![t].n = @ + 1]
          /\ fs' = [fs EXCEPT ![TaskPath(t)] = File(TaskURL(t), tmp[t].n + 1)]
          /\ pc' = [pc EXCEPT ![t] = IF tmp[t].n + 1 = resp[t].chunks
                                     THEN "move" ELSE "stream"]
          /\ UNCHANGED << ret, cause >>
       \/ /\ tmp' = [tmp EXCEPT ![t] = Absent]
          /\ Return(t, "Failed", "streambreak")
          /\ UNCHANGED fs
       \/ /\ tmp' = [tmp EXCEPT ![t] = TmpAfterError(t)]
          /\ Return(t, "Error", "writeerror")
          /\ UNCHANGED fs

\* one turn of the loop over the body: the next chunk is written to the
\* temporary file, or the stream breaks, or the write fails
WChunk(t) ==
    /\ pc[t] = "stream"
    /\ LoopFree(t)
    /\ UNCHANGED << envVars, mainVars, fs, artlm, markers, prev, hdr, resp, pre, gets, wrote >>
    /\ \/ /\ tmp' = [tmp EXCEPT ![t].n = @ + 1]
          /\ pc' = [pc EXCEPT ![t] = IF tmp[t].n + 1 = resp[t].chunks
                                     THEN "move" ELSE "stream"]
          /\ UNCHANGED << ret, cause >>
       \/ /\ tmp' = [tmp EXCEPT ![t] = Absent]
          /\ Return(t, "Failed", "streambreak")
       \/ /\ tmp' = [tmp EXCEPT ![t] = TmpAfterError(t)]
          /\ Return(t, "Error", "writeerror")

\* a plausible slip: the marker is written before the move is attempted
WMoveMarkerFirst(t) ==
    /\ pc[t] = "move"
    /\ LoopFree(t)
    /\ UNCHANGED << envVars, mainVars, prev, hdr, resp, pre, gets >>
    /\ markers' = IF Truthy(resp[t].lm)
                  THEN [markers EXCEPT ![TaskPath(t)] = resp[t].lm] ELSE markers
    /\ \/ /\ sameFs
          /\ fs' = [fs EXCEPT ![TaskPath(t)] = tmp[t]]
          /\ artlm' = [artlm EXCEPT ![TaskPath(t)] = resp[t].lm]
          /\ tmp' = [tmp EXCEPT ![t] = Absent]
          /\ wrote' = [wrote EXCEPT ![t] = @ + 1]
          /\ pc' = [pc EXCEPT ![t] = "marker"]
          /\ UNCHANGED << ret, cause >>
       \/ /\ ~sameFs
          /\ fs' = [fs EXCEPT ![TaskPath(t)] = File(TaskURL(t), 0)]
          /\ artlm' = [artlm EXCEPT ![TaskPath(t)] = resp[t].lm]
          /\ wrote' = [wrote EXCEPT ![t] = @ + 1]
          /\ IF resp[t].chunks = 0
             THEN /\ tmp' = [tmp EXCEPT ![t] = Absent]
                  /\ pc' = [pc EXCEPT ![t] = "marker"]
             ELSE /\ pc' = [pc EXCEPT ![t] = "copy"]
                  /\ UNCHANGED tmp
          /\ UNCHANGED << ret, cause >>
       \/ /\ tmp' = [tmp EXCEPT ![t] = TmpAfterError(t)]
          /\ Return(t, "Error", "moveerror")
          /\ UNCHANGED << fs, artlm, wrote >>

\* shutil.move(tmp_filename, final_file): os.rename when both are on one
\* filesystem; otherwise the destination is opened for writing and the
\* temporary file is copied into it, then unlinked
WMove(t) ==
    /\ pc[t] = "move"
    /\ LoopFree(t)
    /\ UNCHANGED << envVars, mainVars, markers, prev, hdr, resp, pre, gets >>
    /\ \/ /\ sameFs
          /\ fs' = [fs EXCEPT ![TaskPath(t)] = tmp[t]]
          /\ artlm' = [artlm EXCEPT ![TaskPath(t)] = resp[t].lm]
          /\ tmp' = [tmp EXCEPT ![t] = Absent]
          /\ wrote' = [wrote EXCEPT ![t] = @ + 1]
          /\ pc' = [pc EXCEPT ![t] = "marker"]
          /\ UNCHANGED << ret, cause >>
       \/ /\ ~sameFs
          /\ fs' = [fs EXCEPT ![TaskPath(t)] = File(TaskURL(t), 0)]
          /\ artlm' = [artlm EXCEPT ![TaskPath(t)] = resp[t].lm]
          /\ wrote' = [wrote EXCEPT ![t] = @ + 1]
          /\ IF resp[t].chunks = 0
             THEN /\ tmp' = [tmp EXCEPT ![t] = Absent]
                  /\ pc' = [pc EXCEPT ![t] = "marker"]
             ELSE /\ pc' = [pc EXCEPT ![t] = "copy"]
                  /\ UNCHANGED tmp
          /\ UNCHANGED << ret, cause >>
       \/ \* OSError before anything is written to the destination
          /\ tmp' = [tmp EXCEPT ![t] = TmpAfterError(t)]
          /\ Return(t, "Error", "moveerror")
          /\ UNCHANGED << fs, artlm, wrote >>

\* the copy of shutil.move across filesystems, chunk by chunk
WCopy(t) ==
    /\ pc[t] = "copy"
    /\ UNCHANGED << envVars, mainVars, markers, artlm, prev, hdr, resp, pre, gets, wrote >>
    /\ \/ /\ fs' = [fs EXCEPT ![TaskPath(t)].n = @ + 1]
          /\ IF fs[TaskPath(t)].n + 1 = resp[t].chunks
             THEN /\ tmp' = [tmp EXCEPT ![t] = Absent]
                  /\ pc' = [pc EXCEPT ![t] = "marker"]
             ELSE UNCHANGED << tmp, pc >>
          /\ UNCHANGED << ret, cause >>
       \/ \* OSError in the middle of the copy (disk full)
          /\ tmp' = [tmp EXCEPT ![t] = TmpAfterError(t)]
          /\ Return(t, "Error", "copyerror")
          /\ UNCHANGED fs

EmptyText == [shape |-> "empty", ts |-> 0]

\* response.headers.get('Last-Modified'), the marker write and the return
WMarker(t) ==
    /\ pc[t] = "marker"
    /\ LoopFree(t)
    /\ UNCHANGED << envVars, mainVars, fs, artlm, tmp, prev, hdr, resp, pre, gets >>
    /\ LET last_modified == resp[t].lm
       IN IF Truthy(last_modified)
          THEN \/ /\ markers' = [markers EXCEPT ![TaskPath(t)] = last_modified]
                  /\ wrote' = [wrote EXCEPT ![t] = @ + 1]
                  /\ Return(t, CommitStatus, "ok")
               \/ \* open(..., 'w') fails: the marker is as it was
                  /\ UNCHANGED << markers, wrote >>
                  /\ Return(t, "Error", "markererror")
               \/ \* f.write fails after open truncated the marker
                  /\ markers' = [markers EXCEPT ![TaskPath(t)] = EmptyText]
                  /\ wrote' = [wrote EXCEPT ![t] = @ + 1]
                  /\ Return(t, "Error", "markererror")
          ELSE /\ UNCHANGED << markers, wrote >>
               /\ Return(t, CommitStatus, "ok")

----------------------------------------------------------------------------
(* The drivers: collection of the results, summary and exit *)

AllDone == \A t \in Tasks : pc[t] = "done"

Result(t) == [task |-> t, status |-> ret[t]]

\* r.startswith("Downloaded"), r.startswith("Skipped"),
\* r.startswith("Failed") or r.startswith("Error")
DownloadedPrefix == {"Downloaded"}
SkippedPrefix == {"SkippedUpToDate", "SkippedNotModified"}
FailedPrefix == {"Failed", "Error"}

\* len([r for r in results if r.startswith(...)])
Count(seq, statuses) == Cardinality({ i \in DOMAIN seq : seq[i].status \in statuses })

downloaded == Count(results, DownloadedPrefix)
skipped == Count(results, SkippedPrefix)
failed == Count(results, FailedPrefix)

\* sys.exit(1) if failed, else the normal end of main()
ExitStatus(res) == IF Count(res, FailedPrefix) > 0 THEN 1 ELSE 0

\* threads: `for future in as_completed(...)`: result = future.result().
\* processes: `for result in pool.imap_unordered(...)`.
\* A call that raised re-raises here: the thread pool's `with` block waits for
\* the other tasks (shutdown(wait=True)), the process pool's terminates its
\* workers; then the exception leaves main().
MainCollect(t) ==
    /\ IsSync
    /\ mainpc = "running"
    /\ pc[t] = "done"
    /\ t \notin collected
    /\ UNCHANGED << envVars, fs, artlm, markers, tmp, run, download_list, ret, prev, hdr,
                    resp, pre, gets, cause, wrote >>
    /\ IF ret[t] = "Raised"
       THEN /\ UNCHANGED << results, collected >>
            /\ IF driver = "threads"
               THEN /\ mainpc' = "aborting"
                    /\ UNCHANGED << pc, exitCode >>
               ELSE /\ pc' = [s \in Tasks |->
                               CASE pc[s] = "done" -> "done"
                                 [] pc[s] = "pending" -> "cancelled"
                                 [] OTHER -> "killed"]
                    /\ Exit(1)
       ELSE /\ results' = Append(results, Result(t))
            /\ collected' = collected \cup {t}
            /\ UNCHANGED << mainpc, pc, exitCode >>

\* threads: the executor has shut down, the exception ends the process
MainAbort ==
    /\ mainpc = "aborting"
    /\ AllDone
    /\ Exit(1)
    /\ UNCHANGED << envVars, fs, artlm, markers, tmp, run, download_list, results, collected,
                    pc, ret, prev, hdr, resp, pre, gets, cause, wrote >>

\* sync scripts: every result is in, categorise and exit
MainSummary ==
    /\ IsSync
    /\ mainpc = "running"
    /\ collected = Tasks
    /\ Exit(ExitStatus(results))
    /\ UNCHANGED << envVars, fs, artlm, markers, tmp, run, download_list, results, collected,
                    pc, ret, prev, hdr, resp, pre, gets, cause, wrote >>

\* a plausible slip: the exception object is kept as the result
GatheredUnconverted(t) == [task |-> t, status |-> ret[t]]

\* async: gather(*tasks, return_exceptions=True) returns, in task order, when
\* every coroutine has ended; an exception becomes "Error: ..."
Gathered(t) == [task |-> t, status |-> IF ret[t] = "Raised" THEN "Error" ELSE ret[t]]

MainGather ==
    /\ driver = "async"
    /\ mainpc = "running"
    /\ AllDone
    /\ results' = [t \in Tasks |-> Gathered(t)]
    /\ collected' = Tasks
    /\ Exit(ExitStatus([t \in Tasks |-> Gathered(t)]))
    /\ UNCHANGED << envVars, fs, artlm, markers, tmp, run, download_list,
                    pc, ret, prev, hdr, resp, pre, gets, cause, wrote >>

\* the downloader is run again: same manifest, same remote, same disk
NextRun ==
    /\ mainpc = "exited"
    /\ run < MaxRuns
    /\ run' = run + 1
    /\ mainpc' = "start"
    /\ download_list' = << >>
    /\ results' = << >>
    /\ collected' = {}
    /\ exitCode' = -1
    /\ pc' = << >>
    /\ ret' = << >>
    /\ prev' = << >>
    /\ hdr' = << >>
    /\ resp' = << >>
    /\ pre' = << >>
    /\ cause' = << >>
    /\ wrote' = << >>
    /\ gets' = << >>
    /\ tmp' = << >>
    /\ UNCHANGED << envVars, fs, artlm, markers >>

Next ==
    \/ MainLoad
    \/ \E t \in Tasks : WStart(t)
    \/ \E t \in Tasks : WGet(t)
    \/ \E t \in Tasks : WChunk(t)
    \/ \E t \in Tasks : WMove(t)
    \/ \E t \in Tasks : WCopy(t)
    \/ \E t \in Tasks : WMarker(t)
    \/ \E t \in Tasks : MainCollect(t)
    \/ MainAbort
    \/ MainSummary
    \/ MainGather
    \/ NextRun

Spec == Init /\ [][Next]_vars

----------------------------------------------------------------------------
(* Runs with an environment that acts between them: a file of the download  *)
(* directory is removed, the server's copy of a resource is replaced.       *)

\* manifests of the runs with an environment
EnvManifests ==
    { << Field("drug", "label", TRUE, << Part(U1) >>) >>,
      << Field("drug", "label", TRUE, << Part(U1), PartNoFile >>) >> }

InitEnv ==
    /\ driver \in {"threads", "processes", "async"}
    /\ sameFs \in BOOLEAN
    /\ cpus \in 1..MaxCpu
    /\ driver # "processes" => cpus = 1
    /\ manifest \in EnvManifests
    /\ remote \in [URLs -> RemoteKinds]
    /\ \A u \in URLs \ UsedURLs(manifest) : remote[u].kind = "unreachable"
    /\ fs = [p \in Paths |-> Absent]
    /\ markers = [p \in Paths |-> NoDate]
    /\ artlm = [p \in Paths |-> NoDate]
    /\ probe = NoProbe
    /\ run = 1 /\ mainpc = "start" /\ exitCode = -1
    /\ download_list = << >> /\ results = << >> /\ collected = {}
    /\ tmp = << >> /\ pc = << >> /\ ret = << >> /\ prev = << >> /\ hdr = << >>
    /\ resp = << >> /\ pre = << >> /\ cause = << >> /\ wrote = << >> /\ gets = << >>

BetweenRuns == mainpc = "exited" /\ run < MaxRuns

\* final_file.exists() is false in the next run
EnvDeleteArtifact(p) ==
    /\ BetweenRuns
    /\ fs[p] # Absent
    /\ fs' = [fs EXCEPT ![p] = Absent]
    /\ artlm' = [artlm EXCEPT ![p] = NoDate]
    /\ UNCHANGED << envVars, mainVars, markers, tmp, pc, ret, prev, hdr, resp, pre, gets,
                    cause, wrote >>

\* last_modified_file.exists() is false in the next run
EnvDeleteMarker(p) ==
    /\ BetweenRuns
    /\ markers[p] # NoDate
    /\ markers' = [markers EXCEPT ![p] = NoDate]
    /\ UNCHANGED << envVars, mainVars, fs, artlm, tmp, pc, ret, prev, hdr, resp, pre, gets,
                    cause, wrote >>

\* response.headers.get('Last-Modified') of the next run: the server has a
\* new copy of the resource, or stops sending the header
EnvRemoteChange(u) ==
    /\ BetweenRuns
    /\ remote[u].kind = "ok"
    /\ \E k \in RemoteKinds :
          /\ k.kind = "ok" /\ k.chunks = remote[u].chunks /\ k # remote[u]
          /\ remote' = [remote EXCEPT ![u] = k]
    /\ UNCHANGED << driver, sameFs, cpus, manifest, probe, mainVars, fs, artlm, markers, tmp,
                    pc, ret, prev, hdr, resp, pre, gets, cause, wrote >>

NextEnv ==
    \/ Next
    \/ \E p \in Paths : EnvDeleteArtifact(p)
    \/ \E p \in Paths : EnvDeleteMarker(p)
    \/ \E u \in URLs : EnvRemoteChange(u)

SpecEnv == InitEnv /\ [][NextEnv]_vars

----------------------------------------------------------------------------
(* The freshness test of download_single_file applied on its own to the     *)
(* texts a marker file and an export_date can hold.                         *)

\* instants: datetime.timestamp() is negative before 1970-01-01
Instants == (-1)..MaxTs

\* the texts: dates in the four formats, a free-form date, an empty string
\* and a string that is no date
Texts ==
    { [shape |-> sh, ts |-> n] : sh \in {"http", "ymd", "iso", "isoz", "flex"}, n \in Instants }
        \cup { EmptyText, [shape |-> "junk", ts |-> 0] }

\* a JSON value that is no string (null, a number) in place of a date
NonString == [shape |-> "nonstr", ts |-> 0]

\* file_info['export_date'] is whatever the manifest holds
ExportTexts == Texts \cup {NonString}

\* no run is in progress
Idle ==
    /\ driver = "threads" /\ sameFs = TRUE /\ cpus = 1
    /\ remote = [u \in URLs |-> [kind |-> "unreachable", chunks |-> 0, lm |-> NoDate]]
    /\ fs = [p \in Paths |-> Absent]
    /\ markers = [p \in Paths |-> NoDate]
    /\ artlm = [p \in Paths |-> NoDate]
    /\ run = 1 /\ mainpc = "start" /\ exitCode = -1
    /\ results = << >> /\ collected = {}
    /\ tmp = << >> /\ pc = << >> /\ ret = << >> /\ prev = << >> /\ hdr = << >>
    /\ resp = << >> /\ pre = << >> /\ cause = << >> /\ wrote = << >> /\ gets = << >>

idleVars == << driver, sameFs, cpus, remote, fs, markers, artlm, tmp, run, mainpc,
               results, collected, exitCode, pc, ret, prev, hdr, resp,
               pre, cause, wrote, gets >>

InitFresh ==
    /\ Idle
    /\ manifest = << >>
    /\ download_list = << >>
    /\ probe \in { [fn |-> "fresh", marker_exists |-> me, final_exists |-> fe,
                     marker |-> mk, export_date |-> ed, done |-> FALSE, skip |-> FALSE,
                     raised |-> FALSE] :
                    me \in BOOLEAN, fe \in BOOLEAN, mk \in Texts, ed \in ExportTexts }

\* lines 87-95 of the sync script, 67-75 of the async one
FreshDecide ==
    /\ probe.fn = "fresh" /\ ~probe.done
    /\ probe' = [probe EXCEPT
                   !.done = TRUE,
                   !.skip = UpToDate(probe.marker_exists /\ probe.final_exists,
                                     probe.marker, probe.export_date),
                   !.raised = /\ probe.marker_exists /\ probe.final_exists
                              /\ \/ parse_date_raises(probe.marker)
                                 \/ parse_date_raises(probe.export_date)]
    /\ UNCHANGED idleVars
    /\ UNCHANGED << manifest, download_list >>

NextFresh == FreshDecide

SpecFresh == InitFresh /\ [][NextFresh]_vars

----------------------------------------------------------------------------
(* One run more: the manifest's files are fetched, found up to date by the  *)
(* following runs, and one marker file is removed before the last run.      *)

ThirdManifests ==
    { << Field("drug", "label", TRUE, << Part(U1), Part(U2) >>) >>,
      << Field("drug", "label", TRUE, << Part(U1), PartNoFile >>) >> }

\* runs are numbered from 0 here; the server answers 200 with a Last-Modified
InitThird ==
    /\ driver \in {"threads", "processes", "async"}
    /\ sameFs \in BOOLEAN
    /\ cpus \in 1..MaxCpu
    /\ driver # "processes" => cpus = 1
    /\ manifest \in ThirdManifests
    /\ remote \in [URLs -> RemoteKinds]
    /\ \A u \in URLs \ UsedURLs(manifest) : remote[u].kind = "unreachable"
    /\ \A u \in UsedURLs(manifest) : remote[u].kind = "ok" /\ remote[u].lm # NoDate
    /\ fs = [p \in Paths |-> Absent]
    /\ markers = [p \in Paths |-> NoDate]
    /\ artlm = [p \in Paths |-> NoDate]
    /\ probe = NoProbe
    /\ run = 0 /\ mainpc = "start" /\ exitCode = -1
    /\ download_list = << >> /\ results = << >> /\ collected = {}
    /\ tmp = << >> /\ pc = << >> /\ ret = << >> /\ prev = << >> /\ hdr = << >>
    /\ resp = << >> /\ pre = << >> /\ cause = << >> /\ wrote = << >> /\ gets = << >>

\* before the last run, one marker file is removed; every artifact stays
DeleteOneMarker(p) ==
    /\ mainpc = "exited"
    /\ run = MaxRuns - 1
    /\ \A q \in Paths : fs[q] # Absent => markers[q] # NoDate
    /\ markers[p] # NoDate
    /\ markers' = [markers EXCEPT ![p] = NoDate]
    /\ UNCHANGED << envVars, mainVars, fs, artlm, tmp, pc, ret, prev, hdr, resp, pre, gets,
                    cause, wrote >>

NextThird ==
    \/ Next
    \/ \E p \in Paths : DeleteOneMarker(p)

SpecThird == InitThird /\ [][NextThird]_vars

----------------------------------------------------------------------------
(* The paths of a task, computed from its URL by the two download scripts   *)
(* and by the parquet builder.  A URL is the sequence of its parts between  *)
(* slashes; a path is the sequence of its components.                       *)

MaxSegs == 3

Segments == {"", "label", "p1.zip"}

\* the texts of 1..MaxSegs parts
PathURLs == UNION { [1..n -> Segments] : n \in 1..MaxSegs }

\* os.path.basename: what follows the last slash
basename(p) == IF Len(p) = 0 THEN "" ELSE p[Len(p)]

\* os.path.dirname: what precedes the last slash
dirname(p) == IF Len(p) = 0 THEN << >> ELSE SubSeq(p, 1, Len(p) - 1)

NonEmpty(s) == s # ""

\* Path(root) / a / b / c: an empty component adds nothing
PathJoin(parts) == SelectSeq(parts, NonEmpty)

\* 02_download.py: Path('.') / data_type / dir_name / filename
sync_final_file(data_type, file_url) ==
    LET filename == basename(file_url)
        dir_name == basename(dirname(file_url))
    IN PathJoin(<< data_type, dir_name, filename >>)

\* 02_download.py: download_dir / f"{filename}.last-modified"
sync_last_modified_file(data_type, file_url) ==
    LET filename == basename(file_url)
        dir_name == basename(dirname(file_url))
    IN PathJoin(<< data_type, dir_name, filename \o ".last-modified" >>)

\* 02_download_async.py: the same two paths
async_final_file(data_type, file_url) ==
    LET filename == basename(file_url)
        dir_name == basename(dirname(file_url))
    IN PathJoin(<< data_type, dir_name, filename >>)

async_last_modified_file(data_type, file_url) ==
    LET filename == basename(file_url)
        dir_name == basename(dirname(file_url))
    IN PathJoin(<< data_type, dir_name, filename \o ".last-modified" >>)

\* a plausible slip: the builder takes the directory one level up
raw_fileFieldDir(data_type, file_url) ==
    LET filename == basename(file_url)
        dir_name == basename(dirname(dirname(file_url)))
    IN PathJoin(<< data_type, dir_name, filename >>)

\* build_parquet.py: Path(os.environ['OPENFDA_RAW_PATH']) / data_type / dir_name / filename,
\* relative to the raw directory
raw_file(data_type, file_url) ==
    LET filename == basename(file_url)
        dir_name == basename(dirname(file_url))
    IN PathJoin(<< data_type, dir_name, filename >>)

\* a task of download_list with the URL its manifest entry holds
PathTask(ty, nm, i, u) == [type |-> ty, name |-> nm, index |-> i, url |-> u]

NoPath == [final |-> << >>, marker |-> << >>, afinal |-> << >>, amarker |-> << >>,
           raw |-> << >>]

InitPaths ==
    /\ Idle
    /\ manifest = << >>
    /\ download_list = << >>
    /\ probe \in { [fn |-> "paths", done |-> FALSE,
                     t1 |-> PathTask("drug", "event", 1, u1),
                     t2 |-> PathTask(ty, nm, i, u2),
                     p1 |-> NoPath, p2 |-> NoPath] :
                    u1 \in PathURLs, u2 \in PathURLs,
                    ty \in {"drug", "device"}, nm \in {"event", "label"}, i \in 1..2 }

PathsOf(task) ==
    [final |-> sync_final_file(task.type, task.url),
     marker |-> sync_last_modified_file(task.type, task.url),
     afinal |-> async_final_file(task.type, task.url),
     amarker |-> async_last_modified_file(task.type, task.url),
     raw |-> raw_file(task.type, task.url)]

\* the three scripts resolve the paths of the two tasks
PathProbe ==
    /\ probe.fn = "paths" /\ ~probe.done
    /\ probe' = [probe EXCEPT !.done = TRUE,
                               !.p1 = PathsOf(probe.t1),
                               !.p2 = PathsOf(probe.t2)]
    /\ UNCHANGED idleVars
    /\ UNCHANGED << manifest, download_list >>

NextPaths == PathProbe

SpecPaths == InitPaths /\ [][NextPaths]_vars

----------------------------------------------------------------------------
(* json2parquet.py as a command: arguments, input file, output path *)

\* the most arguments given after the script name
MaxArgs == 3

\* the input file: absent, no JSON, JSON the conversion rejects (a number,
\* a list of numbers), an object with 'results', any other object
InputKinds == {"missing", "invalid", "rejected", "results", "plain"}

\* the file at the output path: none, one left by an earlier conversion,
\* the one this call wrote, one this call left half written
OutputKinds == {"none", "old", "new", "partial"}

\* DataFrame.to_parquet(output_filename): writes the file, fails before
\* opening it, or fails while writing
WriteOutcomes == {"written", "refused", "broken"}

\* convert_json_to_parquet: open, json.load, json_normalize, to_parquet
convert_json_to_parquet(input, output, write) ==
    CASE input = "missing" -> [raised |-> "FileNotFoundError", out |-> output]
      [] input = "invalid" -> [raised |-> "JSONDecodeError", out |-> output]
      [] input = "rejected" -> [raised |-> "TypeError", out |-> output]
      [] write = "refused" -> [raised |-> "OSError", out |-> output]
      [] write = "broken" -> [raised |-> "OSError", out |-> "partial"]
      [] OTHER -> [raised |-> "none", out |-> "new"]

\* a plausible slip: the handler prints the error and main() ends normally
mainNoExit(argc, input, output, write) ==
    IF argc # 2 THEN [exit |-> 1, out |-> output]
    ELSE [exit |-> 0, out |-> convert_json_to_parquet(input, output, write).out]

\* main(): len(sys.argv) != 3 -> usage, exit 1; except Exception -> exit 1
main(argc, input, output, write) ==
    IF argc # 2 THEN [exit |-> 1, out |-> output]
    ELSE LET c == convert_json_to_parquet(input, output, write)
         IN [exit |-> IF c.raised = "none" THEN 0 ELSE 1, out |-> c.out]

InitJ2P ==
    /\ Idle
    /\ manifest = << >>
    /\ download_list = << >>
    /\ probe \in { [fn |-> "json2parquet", done |-> FALSE, argc |-> n, input |-> i,
                     before |-> b, write |-> w, exit |-> -1, after |-> b] :
                    n \in 0..MaxArgs, i \in InputKinds, b \in {"none", "old"},
                    w \in WriteOutcomes }

\* the program runs to its exit
J2PRun ==
    /\ probe.fn = "json2parquet" /\ ~probe.done
    /\ LET r == main(probe.argc, probe.input, probe.before, probe.write)
       IN probe' = [probe EXCEPT !.done = TRUE, !.exit = r.exit, !.after = r.out]
    /\ UNCHANGED idleVars
    /\ UNCHANGED << manifest, download_list >>

NextJ2P == J2PRun

SpecJ2P == InitJ2P /\ [][NextJ2P]_vars

----------------------------------------------------------------------------
(* safe_convert_to_string applied to the values of a column *)

\* the longest column
MaxColumn == 2

\* a value: what it is, what json.dumps does on it, what str() does on it
Value(k, d, s) == [kind |-> k, dumps |-> d, str |-> s]

\* strings, numbers, None; lists and dicts: serialisable, holding something
\* json.dumps refuses (TypeError), self-referencing (ValueError; str() prints
\* "{...}"), nested deeper than the interpreter's recursion limit allows at
\* the point of the call (RecursionError, from str() as well); other iterables
\* (tuple, set, bytes, array); objects whose __iter__ raises when called
Values ==
    { Value(k, "n/a", "ok") : k \in {"str", "number", "none", "baditer"} }
        \cup { Value(k, "ok", "ok") : k \in {"list", "dict"} }
        \cup { Value(k, "TypeError", s) : k \in {"list", "dict"}, s \in {"ok", "raises"} }
        \cup { Value(k, "ValueError", "ok") : k \in {"list", "dict"} }
        \cup { Value(k, "RecursionError", "raises") : k \in {"list", "dict"} }
        \cup { Value("iterable", "n/a", s) : s \in {"ok", "raises"} }

\* what a call gives back: a string (the JSON text or the str() text), the
\* argument itself, or an exception
AsString(text) == [raised |-> FALSE, type |-> "str", text |-> text]
Same == [raised |-> FALSE, type |-> "same", text |-> "n/a"]
Raises == [raised |-> TRUE, type |-> "none", text |-> "n/a"]

\* str(x)
StrOf(x) == IF x.str = "ok" THEN AsString("str") ELSE Raises

\* hasattr(x, '__iter__'): the attribute is looked up, not called
HasIter(x) == x.kind \in {"str", "list", "dict", "iterable", "baditer"}

\* try: list/dict -> json.dumps(x); other iterable -> str(x); else x
\* except: return str(x)
safe_convert_to_string(x) ==
    IF x.kind \in {"list", "dict"}
    THEN IF x.dumps = "ok" THEN AsString("json") ELSE StrOf(x)
    ELSE IF HasIter(x) /\ x.kind # "str"
    THEN StrOf(x)
    ELSE Same

InitConvert ==
    /\ Idle
    /\ manifest = << >>
    /\ download_list = << >>
    /\ probe \in { [fn |-> "convert", column |-> c, out |-> << >>, raised |-> FALSE] :
                    c \in UNION { [1..n -> Values] : n \in 1..MaxColumn } }

\* df[col].apply(safe_convert_to_string): the next value of the column; an
\* exception ends the apply
ConvertNext ==
    /\ probe.fn = "convert" /\ ~probe.raised
    /\ Len(probe.out) < Len(probe.column)
    /\ LET r == safe_convert_to_string(probe.column[Len(probe.out) + 1])
       IN probe' = [probe EXCEPT !.out = Append(@, r), !.raised = r.raised]
    /\ UNCHANGED idleVars
    /\ UNCHANGED << manifest, download_list >>

NextConvert == ConvertNext

SpecConvert == InitConvert /\ [][NextConvert]_vars

----------------------------------------------------------------------------
(* download_dir.mkdir(parents=True, exist_ok=True) by workers whose tasks    *)
(* share data_type and dir_name.  Path.mkdir: os.mkdir(self); on            *)
(* FileNotFoundError create the parent the same way and call                *)
(* self.mkdir(parents=False, exist_ok=exist_ok); on any other OSError raise *)
(* unless exist_ok and self.is_dir().                                       *)

\* workers creating the same directory
MaxWorkers == 3

Workers == 1..MaxWorkers

\* a plausible slip: the directory is created without exist_ok
exist_okFalse == FALSE

\* the argument exist_ok=True of the call
exist_ok == TRUE

\* the directory of the dataset type and the download directory below it
\* exist or not when the run starts; nothing removes them during a run
InitMkdir ==
    /\ Idle
    /\ manifest = << >>
    /\ download_list = << >>
    /\ probe \in { [fn |-> "mkdir", type_dir |-> a, download_dir |-> b,
                     at |-> [w \in Workers |-> "mkdir"],
                     met |-> [w \in Workers |-> FALSE]] :
                    a \in BOOLEAN, b \in BOOLEAN }
    /\ probe.download_dir => probe.type_dir

MkdirStep(w, from) ==
    /\ probe.fn = "mkdir"
    /\ probe.at[w] = from
    /\ UNCHANGED idleVars
    /\ UNCHANGED << manifest, download_list >>

\* os.mkdir(download_dir), first attempt
MkdirLeaf(w) ==
    /\ MkdirStep(w, "mkdir")
    /\ probe' =
         IF ~probe.type_dir THEN [probe EXCEPT !.at[w] = "parent"]
         ELSE IF probe.download_dir
         THEN [probe EXCEPT !.met[w] = TRUE,
                            !.at[w] = IF exist_ok THEN "is_dir" ELSE "raised"]
         ELSE [probe EXCEPT !.download_dir = TRUE, !.at[w] = "done"]

\* self.parent.mkdir(parents=True, exist_ok=True): os.mkdir(type_dir)
MkdirParent(w) ==
    /\ MkdirStep(w, "parent")
    /\ probe' =
         IF probe.type_dir
         THEN [probe EXCEPT !.met[w] = TRUE, !.at[w] = "parent_is_dir"]
         ELSE [probe EXCEPT !.type_dir = TRUE, !.at[w] = "again"]

\* the parent's `if not exist_ok or not self.is_dir(): raise`
MkdirParentIsDir(w) ==
    /\ MkdirStep(w, "parent_is_dir")
    /\ probe' = [probe EXCEPT !.at[w] = IF probe.type_dir THEN "again" ELSE "raised"]

\* self.mkdir(mode, parents=False, exist_ok=exist_ok): os.mkdir(download_dir)
MkdirAgain(w) ==
    /\ MkdirStep(w, "again")
    /\ probe' =
         IF ~probe.type_dir THEN [probe EXCEPT !.at[w] = "raised"]
         ELSE IF probe.download_dir
         THEN [probe EXCEPT !.met[w] = TRUE,
                            !.at[w] = IF exist_ok THEN "is_dir" ELSE "raised"]
         ELSE [probe EXCEPT !.download_dir = TRUE, !.at[w] = "done"]

\* `if not exist_ok or not self.is_dir(): raise`
MkdirIsDir(w) ==
    /\ MkdirStep(w, "is_dir")
    /\ probe' = [probe EXCEPT !.at[w] = IF probe.download_dir THEN "done" ELSE "raised"]

NextMkdir ==
    \/ \E w \in Workers : MkdirLeaf(w)
    \/ \E w \in Workers : MkdirParent(w)
    \/ \E w \in Workers : MkdirParentIsDir(w)
    \/ \E w \in Workers : MkdirAgain(w)
    \/ \E w \in Workers : MkdirIsDir(w)

SpecMkdir == InitMkdir /\ [][NextMkdir]_vars

----------------------------------------------------------------------------
(* get_session() under the thread driver: the pool's threads take tasks and *)
(* each call of download_single_file asks for the session of its thread.    *)

\* tasks submitted to the pool
MaxJobs == 4

NoSession == 0

\* a plausible slip: the session is kept in a module-level object
SlotOfModule(th) == 1

\* _thread_local = threading.local(): every thread sees attributes of its own
SlotOf(th) == th

InitSession ==
    /\ Idle
    /\ manifest = << >>
    /\ download_list = << >>
    /\ probe = [fn |-> "session", jobs |-> MaxJobs,
                 slot |-> [th \in Workers |-> NoSession],
                 creator |-> << >>,
                 users |-> << >>,
                 created |-> [th \in Workers |-> 0],
                 served |-> [th \in Workers |-> 0],
                 session |-> [th \in Workers |-> NoSession]]

SessionStep ==
    /\ probe.fn = "session"
    /\ UNCHANGED idleVars
    /\ UNCHANGED << manifest, download_list >>

\* a pool thread takes a task; session = get_session():
\* if not hasattr(_thread_local, 'session'): create one; return it
GetSession(th) ==
    /\ SessionStep
    /\ probe.jobs > 0
    /\ probe.session[th] = NoSession
    /\ IF probe.slot[SlotOf(th)] = NoSession
       THEN LET s == Len(probe.creator) + 1
            IN probe' = [probe EXCEPT !.jobs = @ - 1,
                                      !.slot[SlotOf(th)] = s,
                                      !.creator = Append(@, th),
                                      !.users = Append(@, {}),
                                      !.created[th] = @ + 1,
                                      !.session[th] = s]
       ELSE probe' = [probe EXCEPT !.jobs = @ - 1,
                                   !.session[th] = probe.slot[SlotOf(th)]]

\* response = session.get(...); the call of download_single_file ends
SessionUse(th) ==
    /\ SessionStep
    /\ probe.session[th] # NoSession
    /\ probe' = [probe EXCEPT !.users[probe.session[th]] = @ \cup {th},
                               !.served[th] = @ + 1,
                               !.session[th] = NoSession]

NextSession ==
    \/ \E th \in Workers : GetSession(th)
    \/ \E th \in Workers : SessionUse(th)

SpecSession == InitSession /\ [][NextSession]_vars

----------------------------------------------------------------------------
(* The temporary file of a call: NamedTemporaryFile(delete=False) in the    *)
(* sync script, mkstemp in the async one.  Both pick a random name in       *)
(* tempfile.gettempdir() and create it with O_CREAT | O_EXCL, trying another *)
(* name when the file exists; the file stays until it is moved or unlinked. *)

\* the names the generator may come up with
MaxNames == 3

TmpNames == 1..MaxNames

\* tempfile.gettempdir(): TMPDIR, /tmp, ...: a directory outside the download tree
TempDir == "/tmp"

\* the path of a temporary file
TmpPath(n) == << TempDir, "tmp" \o ToString(n) >>

\* a plausible slip: the name is picked without exclusive creation (mktemp)
exclusiveNot == FALSE

\* os.open(name, O_RDWR | O_CREAT | O_EXCL) inside mkstemp
exclusive == TRUE

InitTmp ==
    /\ Idle
    /\ manifest = << >>
    /\ download_list = << >>
    /\ probe \in { [fn |-> "tmp", exists |-> old, jobs |-> MaxJobs,
                     name |-> [w \in Workers |-> 0],
                     at |-> [w \in Workers |-> "idle"],
                     writers |-> [n \in TmpNames |-> {}]] :
                    old \in {{}, {1}} }

TmpStep ==
    /\ probe.fn = "tmp"
    /\ UNCHANGED idleVars
    /\ UNCHANGED << manifest, download_list >>

\* a worker starts a call and creates its temporary file
Mkstemp(w) ==
    /\ TmpStep
    /\ probe.jobs > 0
    /\ probe.at[w] = "idle"
    /\ \E n \in TmpNames :
          /\ exclusive => n \notin probe.exists
          /\ probe' = [probe EXCEPT !.jobs = @ - 1,
                                     !.exists = @ \cup {n},
                                     !.name[w] = n,
                                     !.at[w] = "get"]

\* open(tmp_filename, 'wb') and the writes of the chunks
TmpWrite(w) ==
    /\ TmpStep
    /\ probe.at[w] = "get"
    /\ probe' = [probe EXCEPT !.writers[probe.name[w]] =
                                   { v \in Workers : probe.at[v] \in {"get", "stream"}
                                                      /\ probe.name[v] = probe.name[w] },
                               !.at[w] = "stream"]

\* shutil.move(tmp_filename, final_file) or os.unlink(tmp_filename): the name is free again
TmpRemove(w) ==
    /\ TmpStep
    /\ probe.at[w] \in {"get", "stream"}
    /\ probe' = [probe EXCEPT !.exists = @ \ {probe.name[w]},
                               !.name[w] = 0,
                               !.at[w] = "idle"]

\* the call ends in the sync script's outer handler: the file stays
TmpLeak(w) ==
    /\ TmpStep
    /\ probe.at[w] = "stream"
    /\ probe' = [probe EXCEPT !.name[w] = 0, !.at[w] = "idle"]

NextTmp ==
    \/ \E w \in Workers : Mkstemp(w)
    \/ \E w \in Workers : TmpWrite(w)
    \/ \E w \in Workers : TmpRemove(w)
    \/ \E w \in Workers : TmpLeak(w)

SpecTmp == InitTmp /\ [][NextTmp]_vars

----------------------------------------------------------------------------
(* build_parquet.py: main() builds process_list from the manifest with the  *)
(* loops of the downloader, a thread pool runs process_single_file on every *)
(* entry, main() collects the results and exits.  Between two build runs    *)
(* the downloader may commit a new raw artifact.  Files carry their         *)
(* modification time; 0 stands for a file that is absent.                   *)

BrickManifests ==
    { << >>,
      << Field("drug", "label", TRUE, << >>) >>,
      << Field("drug", "label", FALSE, << Part(U1) >>) >>,
      << Field("drug", "label", TRUE, << Part(U1), Part(U2) >>) >>,
      << Field("drug", "label", TRUE, << Part(U1), PartNoFile >>) >>,
      << [Field("drug", "label", TRUE, << >>) EXCEPT !.hasPartitions = FALSE] >> }

InitParquet ==
    /\ Idle
    /\ manifest \in BrickManifests
    /\ download_list = << >>
    /\ probe \in { [fn |-> "parquet", run |-> 1, mainpc |-> "start", exit |-> -1,
                     process_list |-> << >>, res |-> << >>, results |-> << >>,
                     raw |-> r, brick |-> [u \in URLs |-> 0],
                     newraw |-> [u \in URLs |-> FALSE],
                     converted |-> {}, clock |-> 2] :
                    r \in [URLs -> {0, 1}] }

ParquetStep ==
    /\ probe.fn = "parquet"
    /\ UNCHANGED idleVars
    /\ UNCHANGED << manifest, download_list >>

ParquetTasks == DOMAIN probe.process_list

\* file_info['partitions'][partition_index]
ParquetPart(t) == manifest[probe.process_list[t].f].partitions[probe.process_list[t].p]

\* a plausible slip: `if num_files == 0: return` is missing, the pool is
\* entered with an empty list
ParquetLoadNoReturn ==
    /\ ParquetStep
    /\ probe.mainpc = "start"
    /\ IF BuildRaises(manifest)
       THEN probe' = [probe EXCEPT !.mainpc = "exited", !.exit = 1]
       ELSE LET pl == BuildList(manifest, 1)
            IN probe' = [probe EXCEPT
                           !.process_list = pl,
                           !.res = [t \in DOMAIN pl |-> "none"],
                           !.results = << >>,
                           !.converted = {},
                           !.mainpc = "running",
                           !.exit = -1]

\* main() up to the thread pool: a KeyError on 'partitions' ends the program
\* with a traceback, an empty list ends it with `return`
ParquetLoad ==
    /\ ParquetStep
    /\ probe.mainpc = "start"
    /\ IF BuildRaises(manifest)
       THEN probe' = [probe EXCEPT !.mainpc = "exited", !.exit = 1]
       ELSE LET pl == BuildList(manifest, 1)
            IN probe' = [probe EXCEPT
                           !.process_list = pl,
                           !.res = [t \in DOMAIN pl |-> "none"],
                           !.results = << >>,
                           !.converted = {},
                           !.mainpc = IF Len(pl) = 0 THEN "exited" ELSE "running",
                           !.exit = IF Len(pl) = 0 THEN 0 ELSE -1]

\* a plausible slip: an output as old as its input counts as up to date
BrickUpToDateLoose(brick_mtime, raw_mtime) ==
    brick_mtime > 0 /\ raw_mtime > 0 /\ brick_mtime >= raw_mtime

\* if brick_file.exists() and raw_file.exists():
\*     if brick_file.stat().st_mtime > raw_file.stat().st_mtime: return "Skipped ..."
BrickUpToDate(brick_mtime, raw_mtime) ==
    brick_mtime > 0 /\ raw_mtime > 0 /\ brick_mtime > raw_mtime

\* process_single_file on entry t.  A partition without 'file' raises
\* KeyError before filename and dir_name are bound; the handler formats
\* both, so the call ends in UnboundLocalError ("Raised").
process_single_file(t) ==
    /\ ParquetStep
    /\ probe.mainpc \in {"running", "aborting"}
    /\ probe.res[t] = "none"
    /\ IF ~ParquetPart(t).hasFile
       THEN probe' = [probe EXCEPT !.res[t] = "Raised"]
       ELSE LET u == ParquetPart(t).file
            IN IF BrickUpToDate(probe.brick[u], probe.raw[u])
               THEN probe' = [probe EXCEPT !.res[t] = "Skipped"]
               ELSE IF probe.raw[u] = 0
               THEN probe' = [probe EXCEPT !.res[t] = "Missing"]
               ELSE \/ \* json2parquet exits 0; the next file may bear the same time
                       \E c \in {probe.clock, probe.clock + 1} :
                           probe' = [probe EXCEPT !.res[t] = "Converted",
                                                  !.brick[u] = probe.clock,
                                                  !.converted = @ \cup {t},
                                                  !.clock = c]
                    \/ \* json2parquet exits non-zero, with or without a file written
                       \E b \in {probe.brick[u], probe.clock} :
                           probe' = [probe EXCEPT !.res[t] = "Failed",
                                                  !.brick[u] = b,
                                                  !.clock = @ + 1]
                    \/ \* bad zip file, no JSON inside, or an exception in the try block
                       probe' = [probe EXCEPT !.res[t] = "Error"]

\* for future in as_completed(...): result = future.result(); results.append(result)
ParquetCollect(t) ==
    /\ ParquetStep
    /\ probe.mainpc = "running"
    /\ probe.res[t] # "none"
    /\ \A i \in DOMAIN probe.results : probe.results[i].task # t
    /\ IF probe.res[t] = "Raised"
       THEN probe' = [probe EXCEPT !.mainpc = "aborting"]
       ELSE probe' = [probe EXCEPT !.results = Append(@, [task |-> t, status |-> probe.res[t]])]

\* the executor's `with` block waits for the running calls, then the
\* exception leaves main()
ParquetAbort ==
    /\ ParquetStep
    /\ probe.mainpc = "aborting"
    /\ \A t \in ParquetTasks : probe.res[t] # "none"
    /\ probe' = [probe EXCEPT !.mainpc = "exited", !.exit = 1,
                               !.newraw = [u \in URLs |-> FALSE]]

\* the summary; sys.exit(1) if failed
ParquetSummary ==
    /\ ParquetStep
    /\ probe.mainpc = "running"
    /\ Len(probe.results) = Len(probe.process_list)
    /\ probe' = [probe EXCEPT !.mainpc = "exited",
                               !.exit = ExitStatus(probe.results),
                               !.newraw = [u \in URLs |-> FALSE]]

\* the downloader has fetched u again: shutil.move puts the file written
\* during the download at the artifact path, with that file's time
DownloaderCommit(u) ==
    /\ ParquetStep
    /\ probe.mainpc = "exited"
    /\ probe.run < MaxRuns
    /\ ~probe.newraw[u]
    /\ \E c \in {probe.clock, probe.clock + 1} :
          probe' = [probe EXCEPT !.raw[u] = probe.clock,
                                 !.newraw[u] = TRUE,
                                 !.clock = c]

\* the builder is run again
ParquetNextRun ==
    /\ ParquetStep
    /\ probe.mainpc = "exited"
    /\ probe.run < MaxRuns
    /\ probe' = [probe EXCEPT !.run = @ + 1, !.mainpc = "start", !.exit = -1,
                               !.process_list = << >>, !.res = << >>, !.results = << >>,
                               !.converted = {}]

NextParquet ==
    \/ ParquetLoad
    \/ \E t \in ParquetTasks : process_single_file(t)
    \/ \E t \in ParquetTasks : ParquetCollect(t)
    \/ ParquetAbort
    \/ ParquetSummary
    \/ \E u \in URLs : DownloaderCommit(u)
    \/ ParquetNextRun

SpecParquet == InitParquet /\ [][NextParquet]_vars

----------------------------------------------------------------------------
(* The download run and the build run over the same manifests: a behaviour  *)
(* is a sequence of download runs or a sequence of build runs.              *)

InitStages ==
    \/ /\ driver \in {"threads", "processes", "async"}
       /\ sameFs \in BOOLEAN
       /\ cpus \in 1..MaxCpu
       /\ driver # "processes" => cpus = 1
       /\ manifest \in BrickManifests
       /\ remote \in [URLs -> RemoteKinds]
       /\ \A u \in URLs \ UsedURLs(manifest) : remote[u].kind = "unreachable"
       /\ fs = [p \in Paths |-> Absent]
       /\ markers = [p \in Paths |-> NoDate]
       /\ artlm = [p \in Paths |-> NoDate]
       /\ probe = NoProbe
       /\ run = 1 /\ mainpc = "start" /\ exitCode = -1
       /\ download_list = << >> /\ results = << >> /\ collected = {}
       /\ tmp = << >> /\ pc = << >> /\ ret = << >> /\ prev = << >> /\ hdr = << >>
       /\ resp = << >> /\ pre = << >> /\ cause = << >> /\ wrote = << >> /\ gets = << >>
    \/ InitParquet

\* the run is a download run
DownloadRun == probe = NoProbe

\* the run is a build run
BuildRun == probe.fn = "parquet"

NextStages ==
    \/ DownloadRun /\ MainLoad
    \/ DownloadRun /\ \E t \in Tasks : WStart(t)
    \/ DownloadRun /\ \E t \in Tasks : WGet(t)
    \/ DownloadRun /\ \E t \in Tasks : WChunk(t)
    \/ DownloadRun /\ \E t \in Tasks : WMove(t)
    \/ DownloadRun /\ \E t \in Tasks : WCopy(t)
    \/ DownloadRun /\ \E t \in Tasks : WMarker(t)
    \/ DownloadRun /\ \E t \in Tasks : MainCollect(t)
    \/ DownloadRun /\ MainAbort
    \/ DownloadRun /\ MainSummary
    \/ DownloadRun /\ MainGather
    \/ DownloadRun /\ NextRun
    \/ BuildRun /\ ParquetLoad
    \/ BuildRun /\ \E t \in ParquetTasks : process_single_file(t)
    \/ BuildRun /\ \E t \in ParquetTasks : ParquetCollect(t)
    \/ BuildRun /\ ParquetAbort
    \/ BuildRun /\ ParquetSummary
    \/ BuildRun /\ \E u \in URLs : DownloaderCommit(u)
    \/ BuildRun /\ ParquetNextRun

SpecStages == InitStages /\ [][NextStages]_vars

----------------------------------------------------------------------------
(* The unzip stage: exec() submits unpack() for every zip file found under  *)
(* the download directory to a pool of max_threads threads.                 *)

data_path == << "download" >>
raw_path == << "raw" >>

\* the zip files that can lie under the download directory: the directories
\* of the path and the file name, split at its dots
ZipFiles ==
    { [parent |-> data_path \o << "drug", d >>, name |-> << b, "json", "zip" >>] :
        d \in {"event", "label"}, b \in {"p1", "p2"} }

\* zipfile.relative_to(data_path): the leading directory is dropped
relative_to(z) == [parent |-> SubSeq(z.parent, Len(data_path) + 1, Len(z.parent)), name |-> z.name]

\* PurePath.stem: the final component without its last suffix; the
\* directories of the path take no part
stem(p) == SubSeq(p.name, 1, Len(p.name) - 1)

\* s[:-5] of a stem that ends in ".json": the last five characters go
DropLast5(s) == IF s[Len(s)] = "json" THEN SubSeq(s, 1, Len(s) - 1) ELSE s

\* extract_to = raw_path / zipfile.relative_to(data_path).stem[:-5]
extract_to(z) == raw_path \o DropLast5(stem(relative_to(z)))

\* the directories extract_to can name
Targets == { extract_to(z) : z \in ZipFiles }

InitUnzip ==
    /\ Idle
    /\ manifest = << >>
    /\ download_list = << >>
    /\ probe \in { [fn |-> "unzip", zipfiles |-> f, max_threads |-> n,
                     pc |-> [z \in f |-> "queued"],
                     outcome |-> [z \in f |-> "none"],
                     exists |-> {},
                     into |-> [t \in Targets |-> {}]] :
                    f \in SUBSET ZipFiles \ {{}}, n \in 1..MaxThreads }

UnzipStep ==
    /\ probe.fn = "unzip"
    /\ UNCHANGED idleVars
    /\ UNCHANGED << manifest, download_list >>

\* the calls of unpack() that a thread of the pool is running
UnzipRunning == { z \in probe.zipfiles : probe.pc[z] = "extracting" }

\* a thread takes zipfile from the queue and runs unpack() up to the test
\* `if not extract_to.exists()`; with the directory there it prints
\* "skipping ..." and returns
UnpackTest(z) ==
    /\ UnzipStep
    /\ probe.pc[z] = "queued"
    /\ Cardinality(UnzipRunning) < probe.max_threads
    /\ IF extract_to(z) \in probe.exists
       THEN probe' = [probe EXCEPT !.pc[z] = "done", !.outcome[z] = "skipped"]
       ELSE probe' = [probe EXCEPT !.pc[z] = "extracting"]

\* shutil.unpack_archive(zipfile, extract_to): the directory is created if
\* it is missing and the members are written into it
UnpackArchive(z) ==
    /\ UnzipStep
    /\ probe.pc[z] = "extracting"
    /\ probe' = [probe EXCEPT !.pc[z] = "done", !.outcome[z] = "extracted",
                               !.exists = @ \cup {extract_to(z)},
                               !.into[extract_to(z)] = @ \cup {z}]

NextUnzip ==
    \/ \E z \in probe.zipfiles : UnpackTest(z)
    \/ \E z \in probe.zipfiles : UnpackArchive(z)

SpecUnzip == InitUnzip /\ [][NextUnzip]_vars

----------------------------------------------------------------------------
(* parse_date applied on its own to a pair of texts *)

InitParse ==
    /\ Idle
    /\ manifest = << >>
    /\ download_list = << >>
    /\ probe \in { [fn |-> "parse", a |-> a, b |-> b, done |-> FALSE,
                     va |-> 0, vb |-> 0, tried |-> << >>,
                     fallback_a |-> FALSE, fallback_b |-> FALSE] :
                    a \in ExportTexts, b \in ExportTexts }

\* parse_date(a), parse_date(b); fallback: the value comes from `return 0`
ParseProbe ==
    /\ probe.fn = "parse" /\ ~probe.done
    /\ probe' = [probe EXCEPT
                   !.done = TRUE,
                   !.va = parse_date(probe.a),
                   !.vb = parse_date(probe.b),
                   !.tried = IF ParseException(probe.a) = "AttributeError"
                             THEN << Formats[1] >> ELSE TryFormats(probe.a, 1).tried,
                   !.fallback_a = ParseException(probe.a) # "none",
                   !.fallback_b = ParseException(probe.b) # "none"]
    /\ UNCHANGED idleVars
    /\ UNCHANGED << manifest, download_list >>

NextParse == ParseProbe

SpecParse == InitParse /\ [][NextParse]_vars

----------------------------------------------------------------------------
(* The construction of download_list applied on its own to manifests of     *)
(* every shape: up to MaxFields entries of up to MaxParts partitions.       *)

FieldTypes == << "drug", "drug", "device", "food" >>
FieldNames == << "event", "label", "recall", "enforcement" >>

\* the manifest whose fi-th entry has shape[fi] partitions
ShapedManifest(shape) ==
    [fi \in DOMAIN shape |->
        Field(FieldTypes[((fi - 1) % 4) + 1], FieldNames[((fi - 1) % 4) + 1], TRUE,
              [pi \in 1..shape[fi] |-> Part(U1)])]

Shapes == UNION { [1..k -> 0..MaxParts] : k \in 0..MaxFields }

InitBuild ==
    /\ Idle
    /\ manifest \in { ShapedManifest(sh) : sh \in Shapes }
    /\ download_list = << >>
    /\ probe = [fn |-> "build", done |-> FALSE]

\* lines 224-233 of the sync script, 168-177 of the async one
BuildProbe ==
    /\ probe.fn = "build" /\ ~probe.done
    /\ download_list' = BuildList(manifest, 1)
    /\ probe' = [probe EXCEPT !.done = TRUE]
    /\ UNCHANGED idleVars
    /\ UNCHANGED manifest

NextBuild == BuildProbe

SpecBuild == InitBuild /\ [][NextBuild]_vars

----------------------------------------------------------------------------
(* Properties *)

Returned(t) == pc[t] = "done"
WellFormed(t) == ~BadEntry(t)
SkippedStatuses == {"SkippedUpToDate", "SkippedNotModified"}

\* C1: a call that ended because the GET failed (connection error, timeout,
\* error status) or because the body stream broke leaves the file at its
\* artifact path exactly as it was when the call started.
C1_FailedFetchLeavesArtifact ==
    \A t \in Tasks :
        (Returned(t) /\ cause[t] \in {"connfail", "timeout", "httperror", "streambreak"})
            => fs[TaskPath(t)] = pre[t]

\* a stream that broke while an earlier, complete artifact was in place
C1_Witness ==
    \E t \in Tasks :
        /\ Returned(t) /\ cause[t] = "streambreak" /\ ret[t] = "Failed"
        /\ pre[t] # Absent /\ fs[TaskPath(t)] = pre[t]

\* C2: at every moment the file at an artifact path is absent or the complete
\* body of a response.
C2_ArtifactNeverPartial ==
    \A p \in Paths : fs[p] = Absent \/ Complete(fs[p])

\* C3 as stated: after a run, a marker implies an artifact that exists and is
\* not empty.
C3_MarkerImpliesNonEmptyArtifact ==
    mainpc = "exited" =>
        \A p \in Paths : markers[p] # NoDate => (fs[p] # Absent /\ fs[p].n > 0)

\* C3 amended: after a run, a marker implies that the artifact file exists.
C3_MarkerImpliesArtifact ==
    mainpc = "exited" =>
        \A p \in Paths : markers[p] # NoDate => fs[p] # Absent

\* a run that committed an empty body together with its marker
C3_Witness ==
    /\ mainpc = "exited"
    /\ \E p \in Paths : markers[p] = LMNew /\ fs[p] # Absent /\ fs[p].n = 0

\* C4: download_single_file never raises to its caller.
C4_WorkerNeverRaises ==
    \A t \in Tasks : ret[t] # "Raised"

\* C5: a call whose GET succeeded, whose body was streamed whole and whose
\* move succeeded returns Downloaded.
C5_CommittedIsDownloaded ==
    \A t \in Tasks :
        (Returned(t) /\ cause[t] \in {"ok", "markererror"}) => ret[t] = "Downloaded"

\* C6: in a finished first run over well-formed entries where one task's URL is
\* unreachable, every other task with a reachable source has run to its end
\* and, unless a fault of its own stopped it, returned Downloaded.
C6_Isolation ==
    (/\ mainpc = "exited" /\ run = 1
     /\ \A t \in Tasks : WellFormed(t)
     /\ \E s \in Tasks : remote[TaskURL(s)].kind = "unreachable")
        => \A t \in Tasks :
              remote[TaskURL(t)].kind = "ok"
                 => /\ Returned(t)
                    /\ cause[t] = "ok" => ret[t] = "Downloaded"

\* C7: when collection has ended the result list holds one result per task and
\* the three families add up to the number of tasks.
C7_EveryResultOnce ==
    mainpc = "exited" =>
        /\ Len(results) = Len(download_list)
        /\ \A t \in Tasks : Cardinality({ i \in DOMAIN results : results[i].task = t }) = 1
        /\ downloaded + skipped + failed = Len(download_list)

\* C8: for a manifest main() can build its task list from, the run exits
\* non-zero exactly when a task ended Failed or Error, and it exits only when
\* every task has produced a result.
C8_ExitIffFailed ==
    (mainpc = "exited" /\ ~BuildRaises(manifest)) =>
        /\ (exitCode # 0) <=> (\E t \in Tasks : ret[t] \in {"Failed", "Error"})
        /\ \A t \in Tasks : ret[t] \notin {"none", "Raised"}

\* C9: the fetches in flight never exceed min(20, n) threads, min(cpu_count,
\* 8, n) processes, min(10, n) semaphore holders, and when the run is over
\* every task has been dispatched.
C9_BoundedAndAllDispatched ==
    /\ Cardinality(InFlight) <=
          (CASE driver = "threads" -> Min(20, Len(download_list))
             [] driver = "processes" -> Min(Min(cpus, 8), Len(download_list))
             [] OTHER -> Min(10, Len(download_list)))
    /\ mainpc = "exited" => \A t \in Tasks : pc[t] # "cancelled"

\* C9, the bound alone
C9_InFlightBounded ==
    Cardinality(InFlight) <=
        (CASE driver = "threads" -> Min(20, Len(download_list))
           [] driver = "processes" -> Min(Min(cpus, 8), Len(download_list))
           [] OTHER -> Min(10, Len(download_list)))

\* task t started with the artifact an earlier run committed at its path
ArtifactFromEarlierRun(t) ==
    /\ WellFormed(t)
    /\ pc[t] # "pending"
    /\ pre[t] # Absent /\ Complete(pre[t])

\* ... and with the marker that run wrote from the response's Last-Modified
MarkerFromEarlierRun(t) ==
    /\ ArtifactFromEarlierRun(t)
    /\ Truthy(prev[t]) /\ prev[t] = remote[TaskURL(t)].lm

\* C10 as stated: in the second run every task whose artifact the first run
\* committed is skipped and writes neither artifact nor marker.
C10_SecondRunSkipsAll ==
    run = 2 =>
        \A t \in Tasks :
            ArtifactFromEarlierRun(t)
               => /\ wrote[t] = 0
                  /\ Returned(t) => ret[t] \in SkippedStatuses

\* C10 amended: ... every task whose first-run response carried a
\* Last-Modified value, so that the marker was committed with the artifact.
C10_SecondRunSkipsMarked ==
    run = 2 =>
        \A t \in Tasks :
            MarkerFromEarlierRun(t)
               => /\ wrote[t] = 0
                  /\ Returned(t) => ret[t] \in SkippedStatuses

\* a second run that ended with a 304 for a task downloaded by the first
C10_Witness ==
    /\ run = 2 /\ mainpc = "exited"
    /\ \E t \in Tasks : MarkerFromEarlierRun(t) /\ ret[t] = "SkippedNotModified"

\* task t started with an artifact and a marker whose instant is strictly
\* after the export date of its manifest entry
StartedFresh(t) ==
    /\ WellFormed(t)
    /\ pc[t] # "pending"
    /\ pre[t] # Absent /\ prev[t] # NoDate
    /\ parse_date(prev[t]) > parse_date(TaskField(t).export_date)

\* C11: a call that found artifact and marker in place, the marker strictly
\* newer than the export date, has returned Skipped (up to date) without
\* issuing a GET and without creating a temporary file; artifact and marker
\* are as they were.
C11_FreshSkipsBeforeConnection ==
    \A t \in Tasks :
        StartedFresh(t)
           => /\ Returned(t) /\ ret[t] = "SkippedUpToDate"
              /\ gets[t] = 0 /\ tmp[t] = Absent /\ resp[t] = NoResp
              /\ wrote[t] = 0
              /\ fs[TaskPath(t)] = pre[t] /\ markers[TaskPath(t)] = prev[t]

\* a later run found the artifact and the newer marker of an earlier download
C11_Witness ==
    \E t \in Tasks :
        /\ StartedFresh(t) /\ ret[t] = "SkippedUpToDate"
        /\ prev[t] = LMNew /\ Complete(pre[t]) /\ gets[t] = 0

\* the text is a date for parse_date
Parses(text) == TryFormats(text, 1).ok

\* C12: the call is skipped as up to date exactly when artifact and marker
\* both exist and the marker's instant is strictly after the export date's;
\* an equal or older marker, and a marker that is no date, lead to a fetch.
C12_FreshnessRule ==
    probe.done =>
        /\ probe.skip <=> (/\ probe.marker_exists /\ probe.final_exists
                           /\ parse_date(probe.marker) > parse_date(probe.export_date))
        /\ (Parses(probe.marker) /\ Parses(probe.export_date)
               /\ probe.marker.ts <= probe.export_date.ts) => ~probe.skip
        /\ ~Parses(probe.marker) => ~probe.skip

\* C12 without its last case: the strict rule, and the fetch for a marker
\* that is equal to or older than the export date
C12_StrictRule ==
    probe.done =>
        /\ probe.skip <=> (/\ probe.marker_exists /\ probe.final_exists
                           /\ parse_date(probe.marker) > parse_date(probe.export_date))
        /\ (Parses(probe.marker) /\ Parses(probe.export_date)
               /\ probe.marker.ts <= probe.export_date.ts) => ~probe.skip

\* task t is about to issue its GET: the headers are prepared, the files at
\* its path are as the call found them
AboutToGet(t) == pc[t] = "get"

\* C13 as stated: whenever a call issues a GET while a marker file exists at
\* its path, the request carries If-Modified-Since with the marker's content,
\* whether or not the artifact exists.
C13_MarkerAlwaysSent ==
    \A t \in Tasks :
        (AboutToGet(t) /\ markers[TaskPath(t)] # NoDate)
            => hdr[t] = markers[TaskPath(t)]

\* C13 amended: the header is sent, with the marker's content, when marker and
\* artifact both exist and the marker is not blank; without the artifact, or
\* with a blank marker, the GET is unconditional.
C13_MarkerSentWithArtifact ==
    \A t \in Tasks :
        AboutToGet(t)
           => LET p == TaskPath(t)
              IN IF markers[p] # NoDate /\ fs[p] # Absent /\ Truthy(markers[p])
                 THEN hdr[t] = markers[p]
                 ELSE hdr[t] = NoDate

\* a conditional GET for an artifact whose marker is not newer than the export date
C13_Witness ==
    \E t \in Tasks :
        /\ AboutToGet(t) /\ fs[TaskPath(t)] # Absent
        /\ markers[TaskPath(t)] = LMOld /\ hdr[t] = LMOld

\* an unconditional GET although the marker is there: the artifact was removed
C13_WitnessNoArtifact ==
    \E t \in Tasks :
        /\ AboutToGet(t) /\ fs[TaskPath(t)] = Absent
        /\ Truthy(markers[TaskPath(t)]) /\ hdr[t] = NoDate

\* C14: a call whose GET was answered 304 has returned Skipped (not
\* modified), which main() counts among the skipped and not among the failed;
\* its temporary file is gone, artifact and marker are as the call found them.
C14_NotModifiedIsSkip ==
    \A t \in Tasks :
        resp[t].status = 304
           => /\ Returned(t) /\ ret[t] = "SkippedNotModified"
              /\ \A i \in DOMAIN results :
                    results[i].task = t
                       => /\ results[i].status \in SkippedPrefix
                          /\ results[i].status \notin FailedPrefix
              /\ tmp[t] = Absent
              /\ wrote[t] = 0
              /\ fs[TaskPath(t)] = pre[t] /\ markers[TaskPath(t)] = prev[t]

\* a finished run that counted a 304 answer among the skipped
C14_Witness ==
    /\ mainpc = "exited" /\ skipped >= 1
    /\ \E t \in Tasks :
          /\ resp[t].status = 304 /\ t \in collected
          /\ pre[t] # Absent /\ Truthy(prev[t]) /\ hdr[t] = prev[t]

\* the GET of task t met a failure of the network layer: no connection, a
\* timeout, a status that is neither 2xx nor 304, or a body that broke off
NetworkFailure(t) ==
    /\ gets[t] > 0
    /\ \/ remote[TaskURL(t)].kind \in {"unreachable", "timeout", "http404"}
       \/ cause[t] = "streambreak"

\* C15: a call whose fetch met a network-layer failure returns Failed, under
\* the sync drivers and under the async one.
C15_NetworkFailureIsFailed ==
    \A t \in Tasks :
        (WellFormed(t) /\ Returned(t) /\ NetworkFailure(t)) => ret[t] = "Failed"

\* C15 for the thread and process drivers alone
C15_SyncNetworkFailureIsFailed ==
    IsSync =>
        \A t \in Tasks :
            (WellFormed(t) /\ Returned(t) /\ NetworkFailure(t)) => ret[t] = "Failed"

\* C16: when a call has returned, with whatever status, its temporary file
\* no longer exists.
C16_NoTempLeak ==
    \A t \in Tasks : Returned(t) => tmp[t] = Absent

\* C16 for the async script alone
C16_AsyncNoTempLeak ==
    driver = "async" => \A t \in Tasks : Returned(t) => tmp[t] = Absent

\* task t has committed the whole body of its response at its artifact path
\* and stands before the marker write
CommittedBeforeMarker(t) ==
    /\ pc[t] = "marker"
    /\ wrote[t] >= 1
    /\ resp[t].status = 200
    /\ tmp[t] = Absent
    /\ fs[TaskPath(t)] = File(TaskURL(t), resp[t].chunks)

\* C17: every step that changes a marker file is the step of a call that has
\* completed the move of its artifact in this invocation and whose response
\* carries a Last-Modified value; a response without one writes no marker.
C17_MarkerOnlyAfterCommit ==
    [][ \A p \in Paths :
          markers'[p] # markers[p]
             => \E t \in Tasks :
                   /\ WellFormed(t) /\ TaskPath(t) = p
                   /\ CommittedBeforeMarker(t)
                   /\ Truthy(resp[t].lm) ]_vars

\* a call that wrote its artifact, then its marker, where neither was before
C17_Witness ==
    \E t \in Tasks :
        /\ Returned(t) /\ cause[t] = "ok" /\ wrote[t] = 2
        /\ pre[t] = Absent /\ prev[t] = NoDate
        /\ markers[TaskPath(t)] = resp[t].lm /\ Truthy(resp[t].lm)
        /\ Complete(fs[TaskPath(t)])

\* C18: after any sequence of runs, a marker that stands beside an artifact
\* holds the Last-Modified value of the response whose body is that artifact.
C18_MarkerDescribesArtifact ==
    mainpc = "exited" =>
        \A p \in Paths :
            (Truthy(markers[p]) /\ fs[p] # Absent) => markers[p] = artlm[p]

\* a run has replaced the artifact from a response without Last-Modified and
\* the marker of the earlier download is still beside it
C18_StaleMarker ==
    /\ mainpc = "exited"
    /\ \E t \in Tasks :
          /\ Returned(t) /\ cause[t] = "ok" /\ resp[t].lm = NoDate /\ wrote[t] = 1
          /\ markers[TaskPath(t)] = LMOld /\ artlm[TaskPath(t)] = NoDate

\* an entry lacks `partitions` or `export_date`, or a partition lacks `file`
Malformed(m) ==
    \E fi \in DOMAIN m :
        \/ ~m[fi].hasPartitions
        \/ ~m[fi].hasExport
        \/ \E pi \in DOMAIN m[fi].partitions : ~m[fi].partitions[pi].hasFile

\* an entry lacks `partitions`
LacksPartitions(m) == \E fi \in DOMAIN m : ~m[fi].hasPartitions

\* no GET has been issued and no artifact or marker has been written
NothingFetched ==
    /\ \A t \in Tasks : gets[t] = 0 /\ wrote[t] = 0
    /\ \A p \in Paths : fs[p] = Absent /\ markers[p] = NoDate

\* C19 as stated: with a manifest that has any of the three defects the run
\* aborts with no GET issued and no artifact or marker written for any task.
C19_MalformedAbortsBeforeFetch ==
    Malformed(manifest) =>
        /\ NothingFetched
        /\ mainpc = "exited" => exitCode # 0

\* C19 amended: with an entry that lacks `partitions` the run aborts while
\* the task list is built: no task is dispatched, nothing is fetched or
\* written, the exit status is not zero.
C19_NoPartitionsAbortsBeforeFetch ==
    LacksPartitions(manifest) =>
        /\ download_list = << >>
        /\ NothingFetched
        /\ mainpc \in {"start", "exited"}
        /\ mainpc = "exited" => exitCode = 1

\* the run of a manifest whose first entry is complete, with a reachable
\* partition, and whose second entry lacks `partitions` has ended
C19_Witness ==
    /\ LacksPartitions(manifest) /\ manifest[1].hasPartitions
    /\ remote[U1].kind = "ok"
    /\ mainpc = "exited" /\ exitCode = 1 /\ run = MaxRuns
    /\ NothingFetched

RECURSIVE TotalPartitions(_, _)
\* the number of partitions of the entries fi.. of the manifest
TotalPartitions(m, fi) ==
    IF fi > Len(m) THEN 0 ELSE Len(m[fi].partitions) + TotalPartitions(m, fi + 1)

\* C20: the task list built from a well-formed manifest holds exactly one
\* task for every entry and every partition index in 0..len(partitions)-1,
\* no task that is not in the manifest, no task twice, in manifest order; its
\* length is the total number of partitions.
C20_TaskListExact ==
    probe.done =>
        /\ Len(download_list) = TotalPartitions(manifest, 1)
        /\ \A i \in DOMAIN download_list :
              /\ download_list[i].f \in DOMAIN manifest
              /\ download_list[i].p - 1 \in
                    0..(Len(manifest[download_list[i].f].partitions) - 1)
        /\ \A fi \in DOMAIN manifest :
              \A partition_index \in 0..(Len(manifest[fi].partitions) - 1) :
                 Cardinality({ i \in DOMAIN download_list :
                                 download_list[i] = [f |-> fi, p |-> partition_index + 1] }) = 1
        /\ \A i, j \in DOMAIN download_list :
              i < j => \/ download_list[i].f < download_list[j].f
                       \/ /\ download_list[i].f = download_list[j].f
                          /\ download_list[i].p < download_list[j].p

\* the list of a manifest of MaxFields entries, one of them without
\* partitions and one with MaxParts of them
C20_Witness ==
    /\ probe.done
    /\ Len(manifest) = MaxFields
    /\ \E fi \in DOMAIN manifest : Len(manifest[fi].partitions) = 0
    /\ \E fi \in DOMAIN manifest : Len(manifest[fi].partitions) = MaxParts
    /\ Len(download_list) > MaxParts

\* C21: parse_date raises for no input, and a text or value that is no date,
\* in the marker or in export_date, makes the freshness test fail: the call
\* goes on to the fetch.
C21_ParseFailureForcesFetch ==
    probe.done =>
        /\ ~probe.raised
        /\ (~Parses(probe.marker) \/ ~Parses(probe.export_date)) => ~probe.skip

\* C21, its first half: no exception leaves parse_date
C21_NeverRaises ==
    probe.done => ~probe.raised

\* the text is a date in one of the four formats
InFourFormats(text) == \E i \in DOMAIN Formats : text.shape = Formats[i]

\* C22: a text in one of the four formats parses to an instant strictly
\* greater than that of any text that falls back to the epoch value.
C22_ParsedAboveFallback ==
    probe.done =>
        ((InFourFormats(probe.a) /\ probe.b.shape # "nonstr" /\ probe.fallback_b)
            => probe.va > probe.vb)

\* C22 for the texts whose instant is after the epoch
C22_LaterThanEpochAboveFallback ==
    probe.done =>
        ((InFourFormats(probe.a) /\ probe.a.ts > 0 /\ probe.fallback_b) => probe.va > probe.vb)

\* the order in which parse_date may consult its parsers
ParserOrder == Formats \o << "dateutil" >>

\* C29: the parsers are consulted in the order HTTP date, YYYY-MM-DD, ISO,
\* ISO with Z, then the flexible parser; each one only after every earlier
\* one failed; the value is that of the first format that parses, and the
\* epoch value 0 comes back only when none of them parsed the text.
C29_FirstFormatWins ==
    probe.done =>
        /\ Formats = << "http", "ymd", "iso", "isoz" >>
        /\ Len(probe.tried) \in 1..Len(ParserOrder)
        /\ \A k \in DOMAIN probe.tried :
              /\ probe.tried[k] = ParserOrder[k]
              /\ k < Len(probe.tried) => ~Strptime(probe.a, ParserOrder[k]).ok
        /\ InFourFormats(probe.a) =>
              /\ probe.tried[Len(probe.tried)] = probe.a.shape
              /\ probe.va = Strptime(probe.a, probe.a.shape).ts
              /\ ~probe.fallback_a
        /\ probe.fallback_a =>
              /\ \A i \in DOMAIN Formats : ~Strptime(probe.a, Formats[i]).ok
              /\ ~DateutilParse(probe.a).ok
              /\ probe.va = 0

\* a text in the last format was parsed after the three earlier formats failed
C29_Witness ==
    /\ probe.done
    /\ probe.a = [shape |-> "isoz", ts |-> 2]
    /\ probe.tried = Formats
    /\ probe.va = 2

\* the last run of a manifest of two partitions is over
LastRunOver ==
    /\ mainpc = "exited"
    /\ run = MaxRuns
    /\ Len(download_list) = 2
    /\ \A t \in Tasks : ~BadEntry(t)

\* the task found its artifact without its marker file
MarkerWasDeleted(t) == pre[t] # Absent /\ prev[t] = NoDate

\* one task found its artifact without its marker, the other found both
OneMarkerDeleted ==
    /\ Cardinality({ t \in Tasks : MarkerWasDeleted(t) }) = 1
    /\ \A t \in Tasks : pre[t] # Absent /\ (~MarkerWasDeleted(t) => Parses(prev[t]))

\* no transfer, write, move or marker write of the run failed
NoFailure == \A t \in Tasks : cause[t] \in {"ok", "uptodate", "notmodified"}

\* exactly the task whose marker was deleted is fetched again, without
\* condition, and is Downloaded; the other task is skipped
OneRefetched ==
    /\ \A t \in Tasks :
          IF MarkerWasDeleted(t)
          THEN ret[t] = "Downloaded" /\ gets[t] = 1 /\ hdr[t] = NoDate
          ELSE ret[t] \in SkippedPrefix /\ (gets[t] = 0 \/ resp[t].status = 304)
    /\ downloaded = 1 /\ skipped = 1 /\ failed = 0

\* C23: both partitions fetched by the first run and skipped by the next,
\* then one marker file deleted: the following run fetches exactly that task
\* again, unconditionally, with result Downloaded, and skips the other:
\* downloaded = 1, skipped = 1, failed = 0.
C23_OneMarkerDeletedOneRefetch ==
    (LastRunOver /\ NoFailure /\ OneMarkerDeleted) => OneRefetched

\* C23 under the async script, with the runs that come before: the first
\* run downloads both partitions, the runs after it skip both
C23_AsyncOneMarkerDeletedOneRefetch ==
    (driver = "async" /\ mainpc = "exited" /\ Len(download_list) = 2 /\ NoFailure) =>
        /\ run = 0 => downloaded = 2 /\ failed = 0
        /\ (run > 0 /\ \A t \in Tasks : pre[t] # Absent /\ Parses(prev[t]))
              => skipped = 2 /\ failed = 0
        /\ (run = MaxRuns /\ OneMarkerDeleted) => OneRefetched

\* the async script has refetched one task in the last run
C23_AsyncRefetched ==
    /\ driver = "async" /\ LastRunOver
    /\ NoFailure /\ OneMarkerDeleted
    /\ \E t \in Tasks : MarkerWasDeleted(t) /\ ret[t] = "Downloaded"
    /\ skipped = 1

\* the status the async script reports for a task whose call met outcome `why`
AsyncStatus(why) ==
    CASE why = "ok" -> "Downloaded"
      [] why = "uptodate" -> "SkippedUpToDate"
      [] why = "notmodified" -> "SkippedNotModified"
      [] why \in {"connfail", "httperror", "streambreak"} -> "Failed"
      [] OTHER -> "Error"

\* the run ended as the async script ends it on the same outcomes: one
\* result per task, no temporary file, exit status from the failed count
EndsAsAsync ==
    /\ DOMAIN results = Tasks
    /\ \A i \in DOMAIN results : results[i].status = AsyncStatus(cause[results[i].task])
    /\ \A t \in Tasks : tmp[t] = Absent
    /\ exitCode = ExitStatus(results)

\* C24: on the same manifest, disk and remote outcomes the thread, process
\* and async drivers end with the same status per task, the same files and
\* the same exit status.  The outcome of each call is in `cause`; the drivers
\* agree when each of them ends as the async driver does on that outcome.
C24_StrategyIndependent ==
    (mainpc = "exited" /\ download_list # << >>) => EndsAsAsync

\* the async driver itself ends that way
C24_AsyncReference ==
    (driver = "async" /\ mainpc = "exited" /\ download_list # << >>) => EndsAsAsync

\* (datasetType, fieldName, partitionIndex) of a task
TaskId(task) == << task.type, task.name, task.index >>

\* C25: two distinct tasks, distinct in (datasetType, fieldName,
\* partitionIndex), have distinct artifact paths and distinct marker paths.
C25_DistinctTasksDistinctPaths ==
    (probe.done /\ TaskId(probe.t1) # TaskId(probe.t2)) =>
        /\ probe.p1.final # probe.p2.final
        /\ probe.p1.marker # probe.p2.marker

\* what the paths are made of: the dataset type and the last two parts of the URL
PathKey(task) ==
    PathJoin(<< task.type,
                IF Len(task.url) >= 2 THEN task.url[Len(task.url) - 1] ELSE "",
                task.url[Len(task.url)] >>)

\* the paths of two tasks differ exactly when their types or the last two
\* parts of their URLs do; field name and partition index play no part
C25_PathsDifferWithKey ==
    probe.done =>
        /\ (probe.p1.final # probe.p2.final) <=> (PathKey(probe.t1) # PathKey(probe.t2))
        /\ (PathKey(probe.t1) # PathKey(probe.t2)) => (probe.p1.marker # probe.p2.marker)

\* C28: the sync downloader, the async downloader and the builder resolve a
\* manifest entry to the same relative path <type>/<basename of the URL's
\* directory>/<basename of the URL>, and the marker path is that path with
\* ".last-modified" appended.
C28_SamePathInAllScripts ==
    probe.done =>
        \A task \in {probe.t1, probe.t2} :
            LET p == IF task = probe.t1 THEN probe.p1 ELSE probe.p2
                n == Len(task.url)
                expected == PathJoin(<< task.type,
                                        IF n >= 2 THEN task.url[n - 1] ELSE "",
                                        task.url[n] >>)
            IN /\ p.final = expected
               /\ p.afinal = expected
               /\ p.raw = expected
               /\ p.marker = p.amarker
               /\ Len(p.marker) >= 1
               /\ task.url[n] # "" =>
                     /\ Len(p.marker) = Len(p.final)
                     /\ \A k \in 1..(Len(p.final) - 1) : p.marker[k] = p.final[k]
                     /\ p.marker[Len(p.marker)] = p.final[Len(p.final)] \o ".last-modified"

\* a URL of three parts resolved to type / directory / file by all three
C28_Witness ==
    /\ probe.done
    /\ probe.t1.url = << "", "label", "p1.zip" >>
    /\ probe.p1.raw = << "drug", "label", "p1.zip" >>
    /\ probe.p1.final = probe.p1.raw /\ probe.p1.afinal = probe.p1.raw
    /\ probe.p1.marker = << "drug", "label", "p1.zip.last-modified" >>

\* wrong argument count, missing input or input that is no JSON
BadCall == probe.argc # 2 \/ probe.input \in {"missing", "invalid"}

\* C26 as stated: status 0 only with two arguments and a completed
\* conversion; after a bad call the status is not 0 and no file exists at
\* the output path.
C26_BadCallNoOutputFile ==
    probe.done =>
        /\ probe.exit = 0 => (probe.argc = 2 /\ probe.after = "new")
        /\ BadCall => (probe.exit # 0 /\ probe.after = "none")

\* C26 amended: after a bad call the status is not 0 and the output path is
\* as it was before the call: no file is created there, and a file that an
\* earlier conversion left there is still there.
C26_BadCallOutputUntouched ==
    probe.done =>
        /\ probe.exit = 0 => (probe.argc = 2 /\ probe.after = "new")
        /\ BadCall => (probe.exit # 0 /\ probe.after = probe.before)

\* invalid JSON given beside an output file of an earlier conversion
C26_Witness ==
    /\ probe.done
    /\ probe.argc = 2 /\ probe.input = "invalid" /\ probe.before = "old"
    /\ probe.exit = 1 /\ probe.after = "old"

\* the call on x gave back r as the claim describes
ConvertedAsDescribed(x, r) ==
    /\ ~r.raised
    /\ x.kind \in {"str", "number", "none"} => r = Same
    /\ x.kind \in {"list", "dict"} =>
          r = AsString(IF x.dumps = "ok" THEN "json" ELSE "str")
    /\ x.kind \in {"iterable", "baditer"} => r.type = "str"

\* C27: safe_convert_to_string never raises; strings, numbers and None come
\* back unchanged, a list or dict comes back as its JSON text or, when it
\* cannot be serialised, as another string, and any other iterable comes
\* back as a string.
C27_NeverRaises ==
    \A k \in DOMAIN probe.out : ConvertedAsDescribed(probe.column[k], probe.out[k])

\* C27 for the values on which str() itself works
C27_NeverRaisesWhenStrWorks ==
    \A k \in DOMAIN probe.out :
        probe.column[k].str = "ok" => ConvertedAsDescribed(probe.column[k], probe.out[k])

\* C30: workers that create the same download directory at the same time:
\* none of them fails because the directory, or its parent, is already
\* there; each goes on past the creation, and the directory exists then.
C30_ConcurrentMkdirNeverFails ==
    \A w \in Workers :
        /\ probe.at[w] # "raised"
        /\ probe.at[w] = "done" => (probe.type_dir /\ probe.download_dir)

\* all workers are past the creation and two of them found the directory
\* made by another
C30_Witness ==
    /\ \A w \in Workers : probe.at[w] = "done"
    /\ \E w, v \in Workers : w # v /\ probe.met[w] /\ probe.met[v]

\* C31: under the thread driver each thread creates at most one session,
\* every call made on a thread gets that same session, and a session is used
\* by no thread but the one that created it.
C31_SessionConfinedToThread ==
    probe.fn = "session" =>
        /\ \A th \in Workers : probe.created[th] <= 1
        /\ \A th \in Workers :
              probe.session[th] # NoSession =>
                  /\ probe.creator[probe.session[th]] = th
                  /\ probe.created[th] = 1
        /\ \A s \in DOMAIN probe.users : probe.users[s] \subseteq {probe.creator[s]}

\* a thread has served two tasks with the one session it created, and
\* another thread has a session of its own
C31_Witness ==
    /\ probe.fn = "session"
    /\ \E th, other \in Workers :
          /\ th # other
          /\ probe.served[th] >= 2 /\ probe.created[th] = 1
          /\ probe.served[other] >= 1 /\ probe.created[other] = 1
          /\ probe.slot[th] # probe.slot[other]

\* the worker is between the creation of its temporary file and its removal
TmpInFlight(w) == probe.at[w] \in {"get", "stream"}

\* the artifact paths of the sync script
ArtifactPaths == { sync_final_file(ty, u) : ty \in {"drug", "device"}, u \in PathURLs }

\* C32: the temporary file of a call in flight is no artifact path and is
\* not the temporary file of another call in flight: no file is written by
\* two workers.
C32_TempFilesDistinct ==
    probe.fn = "tmp" =>
        /\ \A w, v \in Workers :
              (w # v /\ TmpInFlight(w) /\ TmpInFlight(v)) => probe.name[w] # probe.name[v]
        /\ \A n \in TmpNames : Cardinality(probe.writers[n]) <= 1
        /\ \A w \in Workers :
              TmpInFlight(w) =>
                  /\ probe.name[w] \in probe.exists
                  /\ TmpPath(probe.name[w]) \notin ArtifactPaths

\* every worker writes its temporary file at the same time, after an
\* earlier call has ended
C32_Witness ==
    /\ probe.fn = "tmp"
    /\ \A w \in Workers : probe.at[w] = "stream"
    /\ probe.jobs < MaxJobs - MaxWorkers

\* C33: under the async driver an exception that leaves a worker coroutine
\* stops neither the run nor the other coroutines: every task has run to
\* its end, the exception is that task's result, converted to Error and
\* counted in failed, and there is one result per task.
C33_AsyncExceptionIsGathered ==
    (driver = "async" /\ mainpc = "exited" /\ \E t \in Tasks : ret[t] = "Raised") =>
        /\ \A t \in Tasks : pc[t] = "done" /\ ret[t] # "none"
        /\ DOMAIN results = Tasks
        /\ \A t \in Tasks :
              /\ results[t].task = t
              /\ results[t].status = IF ret[t] = "Raised" THEN "Error" ELSE ret[t]
        /\ failed >= Cardinality({ t \in Tasks : ret[t] = "Raised" })
        /\ downloaded + skipped + failed = Len(download_list)
        /\ exitCode = 1

\* a coroutine raised and another one downloaded its file in the same run
C33_Witness ==
    /\ driver = "async" /\ mainpc = "exited"
    /\ \E t, s \in Tasks :
          /\ ret[t] = "Raised" /\ results[t].status = "Error"
          /\ ret[s] = "Downloaded" /\ results[s].status = "Downloaded"

\* the run in progress has handled entry t, an entry with a file
ParquetHandled(t) ==
    /\ probe.mainpc \in {"running", "aborting"}
    /\ ParquetPart(t).hasFile
    /\ probe.res[t] # "none"

\* C35: process_single_file returns Skipped only when output and input both
\* exist and the output is strictly newer; so a partition whose raw artifact
\* the downloader has committed since the last build run is converted again,
\* not skipped, and a partition without raw input is Missing, never converted.
C35_SkippedOnlyWhenNewer ==
    probe.fn = "parquet" =>
        \A t \in ParquetTasks :
            ParquetHandled(t) =>
                LET u == ParquetPart(t).file
                IN /\ probe.res[t] = "Skipped" =>
                         (probe.brick[u] > 0 /\ probe.raw[u] > 0 /\ probe.brick[u] > probe.raw[u])
                   /\ probe.newraw[u] => probe.res[t] \in {"Converted", "Failed", "Error"}
                   /\ probe.raw[u] = 0 => (probe.res[t] = "Missing" /\ t \notin probe.converted)
                   /\ t \in probe.converted => probe.raw[u] > 0

\* in the second build run a partition fetched anew is converted again, at
\* the very time its raw file bears, and the other partition is skipped
C35_Witness ==
    /\ probe.fn = "parquet" /\ probe.run = 2
    /\ \E t, s \in ParquetTasks :
          /\ ParquetHandled(t) /\ ParquetHandled(s)
          /\ probe.newraw[ParquetPart(t).file]
          /\ probe.res[t] = "Converted"
          /\ probe.brick[ParquetPart(t).file] = probe.raw[ParquetPart(t).file]
          /\ probe.res[s] = "Skipped"

\* the families of the build summary
ConvertedPrefix == {"Converted"}
BuildSkippedPrefix == {"Skipped"}
MissingPrefix == {"Missing"}

\* every task has one result in one family, and the exit status tells
\* whether the Failed/Error family is empty
BuildAccounted ==
    /\ Len(probe.results) = Len(probe.process_list)
    /\ \A t \in ParquetTasks :
          Cardinality({ i \in DOMAIN probe.results : probe.results[i].task = t }) = 1
    /\ \A i \in DOMAIN probe.results :
          probe.results[i].status \in
              ConvertedPrefix \cup BuildSkippedPrefix \cup MissingPrefix \cup FailedPrefix
    /\ Count(probe.results, ConvertedPrefix) + Count(probe.results, BuildSkippedPrefix)
         + Count(probe.results, MissingPrefix) + Count(probe.results, FailedPrefix)
         = Len(probe.process_list)
    /\ (probe.exit # 0) <=> (Count(probe.results, FailedPrefix) > 0)

\* a build run over at least one partition has ended
BuildRunOver ==
    /\ probe.fn = "parquet" /\ probe.mainpc = "exited"
    /\ ~BuildRaises(manifest) /\ BuildList(manifest, 1) # << >>

\* C36: at the end of a build run every task's result has been collected
\* once, in one of the families Converted, Skipped, Missing, Failed/Error;
\* the four counts add up to the number of partitions; the exit status is
\* non-zero exactly when Failed/Error is not empty.
C36_BuildResultsAccounted ==
    BuildRunOver => BuildAccounted

\* C36 for manifests whose partitions all have a file
C36_BuildResultsAccountedWithFiles ==
    (BuildRunOver /\ \A t \in ParquetTasks : ParquetPart(t).hasFile) => BuildAccounted

\* C37: process_single_file returns a result string for every entry, one
\* whose partition lacks `file` included: no call raises into the pool, and
\* main collects the results of all tasks.
C37_BuilderNeverRaises ==
    probe.fn = "parquet" =>
        /\ \A t \in ParquetTasks : probe.res[t] # "Raised"
        /\ probe.mainpc # "aborting"
        /\ BuildRunOver => Len(probe.results) = Len(probe.process_list)

\* C37 for the entries that have a file
C37_BuilderNeverRaisesWithFile ==
    probe.fn = "parquet" =>
        \A t \in ParquetTasks : ParquetPart(t).hasFile => probe.res[t] # "Raised"

\* the manifest is well formed as far as the list is built, and the list is empty
YieldsZeroTasks == ~BuildRaises(manifest) /\ BuildList(manifest, 1) = << >>

\* the download run of a manifest without tasks: main() is before the list or
\* has returned, with status 0; no call of download_single_file exists, no
\* result was collected, no file of the download directory exists
DownloadRunIdle ==
    /\ mainpc \in {"start", "exited"}
    /\ mainpc = "exited" => exitCode = 0
    /\ download_list = << >> /\ DOMAIN pc = {} /\ DOMAIN gets = {}
    /\ results = << >> /\ collected = {}
    /\ DOMAIN tmp = {}
    /\ \A p \in Paths : fs[p] = Absent /\ markers[p] = NoDate

\* the build run of a manifest without tasks: main() is before the list or
\* has returned, with status 0; no call of process_single_file exists, no
\* parquet file was written
BuildRunIdle ==
    /\ probe.mainpc \in {"start", "exited"}
    /\ probe.mainpc = "exited" => probe.exit = 0
    /\ probe.process_list = << >> /\ DOMAIN probe.res = {}
    /\ probe.results = << >> /\ probe.converted = {}
    /\ \A u \in URLs : probe.brick[u] = 0

\* C34: when the manifest yields zero tasks (no entries, or entries whose
\* partitions are empty), the download run and the build run end with exit
\* status 0 and start no worker, issue no request and write no artifact, no
\* marker, no temporary file and no parquet file.
C34_ZeroTasksCleanExit ==
    YieldsZeroTasks =>
        /\ DownloadRun => DownloadRunIdle
        /\ BuildRun => BuildRunIdle

\* both kinds of run have ended for a manifest with an entry without partitions
C34_Witness ==
    /\ YieldsZeroTasks /\ Len(manifest) = 1
    /\ \/ DownloadRun /\ mainpc = "exited" /\ exitCode = 0 /\ run = MaxRuns
       \/ BuildRun /\ probe.mainpc = "exited" /\ probe.exit = 0
          /\ probe.run = MaxRuns /\ \E u \in URLs : probe.raw[u] > 0

\* every call of unpack() has returned
UnzipOver == \A z \in probe.zipfiles : probe.pc[z] = "done"

\* no two of the zip files found share an extraction target; once the pool
\* is done every one of them was extracted, into a directory of its own
UnzipAllExtracted ==
    /\ \A z1, z2 \in probe.zipfiles : z1 # z2 => extract_to(z1) # extract_to(z2)
    /\ \A z \in probe.zipfiles : probe.outcome[z] # "skipped"
    /\ UnzipOver => \A z \in probe.zipfiles :
                        probe.outcome[z] = "extracted" /\ probe.into[extract_to(z)] = {z}

\* C38: in the unzip stage distinct zip files found under the download
\* directory have distinct extraction targets, so under every interleaving of
\* the threads each is extracted exactly once and none is skipped because the
\* target of another zip file exists.
C38_DistinctZipsDistinctTargets ==
    probe.fn = "unzip" => UnzipAllExtracted

\* C38, for the zip files of a single directory: their names differ, so do
\* their targets, and each is extracted once.
C38_DistinctTargetsWithinDirectory ==
    (probe.fn = "unzip" /\ \A z1, z2 \in probe.zipfiles : z1.parent = z2.parent)
        => UnzipAllExtracted

\* two zip files of one directory were extracted by two threads at a time
C38_WitnessWithinDirectory ==
    /\ probe.fn = "unzip" /\ UnzipOver
    /\ Cardinality(probe.zipfiles) = 2 /\ probe.max_threads = 2
    /\ \A z1, z2 \in probe.zipfiles : z1.parent = z2.parent
    /\ \A z \in probe.zipfiles : probe.outcome[z] = "extracted"

\* the other outcome of two zip files of the same name: both threads pass
\* the test before either unpacks, and both archives land in one directory
C38_BothIntoOneTarget ==
    /\ probe.fn = "unzip" /\ UnzipOver
    /\ \E t \in Targets : Cardinality(probe.into[t]) = 2

====
